---- MODULE Spec2Model ----
(***************************************************************************)
(* Model of the AppDynamics metrics tool (src/appdynamics_metrics.py) and  *)
(* of the journey simulator (src/load-generator/scripts/                   *)
(* realistic_load_test.py).                                                *)
(*                                                                         *)
(* Metric values are Python floats rounded to two decimals; they are held  *)
(* here as integers counting hundredths (45.3 is 4530), so the thresholds  *)
(* 5, 1, 5000 and 2000 of the classifier read 500, 100, 500000, 200000.    *)
(***************************************************************************)
EXTENDS Integers, Sequences, FiniteSets, TLC

VARIABLES
    \* harness applying _determine_health_status to one triple
    h_metrics, h_status,
    \* one call of AppDynamicsAPI.get_application_metrics
    m_pc, metrics_data, m_queried, m_failed, m_response,
    \* main(): position, return code, CONFIG credentials set, the global
    \* token_data, the session's Authorization header, what authenticate
    \* returned, the controller's application list, api.get_applications()'s
    \* result, and the operations performed so far
    main_pc, main_rc, configured, token_data, authorization, authenticated,
    controller_apps, applications, performed,
    \* collect_metrics_threaded: the main thread's position, the index of the
    \* next application of the for loop, the list threads, the thread being
    \* joined, each worker's position and fetched sample, the holder of
    \* lock, the result list (metrics_data of the function) and completed
    c_pc, c_next, threads, c_join, t_state, t_sample, lock, metrics_list,
    completed,
    \* one RealisticEcommerceUser: the session's position, session_data, the
    \* journey being executed and the index of its next step, and of the
    \* step executed last: its name, the HTTP calls it issued, the span
    \* attributes it set and whether it raised; the steps of the journey
    \* executed so far and what was recorded on the span user_journey
    u_pc, session_data, journey, step_idx, last_step, step_calls, step_attrs,
    step_raised, executed, journey_span,
    \* several RealisticEcommerceUser objects running at once: the session
    \* dictionaries created so far, each user's reference self.session_data
    \* (0 before on_start), each user's position, and the user that made
    \* the last move
    heap, session_ref, fleet_pc, actor,
    \* one use of UserJourney.get_random_journey: the class attribute
    \* JOURNEY_PATTERNS, the position, the pattern chosen, the list
    \* returned and the number of its steps the for loop has taken
    patterns, pick_pc, chosen_pattern, picked, walked,
    \* The CSV writers: the writer called, the list it is given, its position,
    \* the file it leaves and the value it returns.
    e_writer, e_data, e_pc, e_file, e_returned,
    \* main's export: the calls of an exporter made so far, each with the format,
    \* the disk's answer and the value returned, and the closing messages printed
    export_calls, printed,
    \* the step spans the current journey has started, in order, each with its
    \* name and whether it has been ended
    spans,
    \* the script's entry: the position, args.hours, what the global name
    \* get_time_range is bound to, the depth of calls of it, the hours argument of
    \* the innermost call, the prompts answered, the range returned (hours) and
    \* main's return code
    cli_pc, args_hours, get_time_range, cli_depth, cli_hours, prompts, time_range, cli_rc,
    \* clients sharing token_data: each client's Authorization header, the
    \* tokens issued so far, and the client and result of the call of
    \* authenticate that has just returned
    sessions, issued, returned

healthVars == <<h_metrics, h_status>>
metricVars == <<m_pc, metrics_data, m_queried, m_failed, m_response>>
mainVars == <<main_pc, main_rc, configured, token_data, authorization,
              authenticated, controller_apps, applications, performed>>
collectVars == <<c_pc, c_next, threads, c_join, t_state, t_sample, lock,
                 metrics_list, completed>>

userVars == <<u_pc, session_data, journey, step_idx, last_step, step_calls,
              step_attrs, step_raised, executed, journey_span>>

fleetVars == <<heap, session_ref, fleet_pc, actor>>

choiceVars == <<patterns, pick_pc, chosen_pattern, picked, walked>>

exportVars == <<e_writer, e_data, e_pc, e_file, e_returned>>

attemptVars == <<export_calls, printed>>

traceVars == <<spans>>

cliVars == <<cli_pc, args_hours, get_time_range, cli_depth, cli_hours, prompts, time_range, cli_rc>>

authVars == <<sessions, issued, returned>>

vars == <<healthVars, metricVars, mainVars, collectVars, userVars, fleetVars,
          choiceVars,
          exportVars,
          attemptVars,
          traceVars,
          cliVars,
          authVars>>

-----------------------------------------------------------------------------
(* Health classification: AppDynamicsAPI._determine_health_status.         *)
(* The function's except branch (return 'Unknown') is entered only when a  *)
(* field is missing or not a number; every field of a sample is a number.  *)

\* Faulty variant: the thresholds compared with >= instead of >.
DetermineHealthStatusInclusive(metrics) ==
    LET error_rate == metrics.error_percentage
        response_time == metrics.average_response_time
    IN  IF error_rate >= 500 \/ response_time >= 500000 THEN "Critical"
        ELSE IF error_rate >= 100 \/ response_time >= 200000 THEN "Warning"
        ELSE IF metrics.calls_per_minute >= 0 THEN "Healthy"
        ELSE "No Traffic"

DetermineHealthStatus(metrics) ==
    LET error_rate == metrics.error_percentage
        response_time == metrics.average_response_time
    IN  IF error_rate > 500 \/ response_time > 500000 THEN "Critical"
        ELSE IF error_rate > 100 \/ response_time > 200000 THEN "Warning"
        ELSE IF metrics.calls_per_minute > 0 THEN "Healthy"
        ELSE "No Traffic"

\* The triples the harness classifies: the spec's examples, each threshold,
\* the value just above it, and a negative call rate.
ErrorPercentages == {0, 100, 101, 200, 500, 501, 600}
ResponseTimes == {0, 10000, 200000, 200001, 500000, 500001}
CallRates == {-100, 0, 1, 5000}

HealthInit ==
    /\ h_metrics \in [error_percentage : ErrorPercentages,
                      average_response_time : ResponseTimes,
                      calls_per_minute : CallRates]
    /\ h_status = "unset"

HealthIdle ==
    /\ h_metrics = [error_percentage |-> 0, average_response_time |-> 0,
                    calls_per_minute |-> 0]
    /\ h_status = "unset"

Classify ==
    /\ h_status = "unset"
    /\ h_status' = DetermineHealthStatus(h_metrics)
    /\ UNCHANGED <<h_metrics, metricVars, mainVars, collectVars, userVars, fleetVars,
                   choiceVars,
                   exportVars,
                   attemptVars,
                   traceVars,
                   cliVars,
                   authVars>>

-----------------------------------------------------------------------------
(* AppDynamicsAPI.get_application_metrics and _process_metric_data.        *)

\* round(x, 2) of the quotient n / d (d > 0) counted in hundredths: the
\* nearest integer, a tie going to the even neighbour.
RoundHalfEven(n, d) ==
    LET q == n \div d
        r == n % d
    IN  IF 2 * r < d THEN q
        ELSE IF 2 * r > d THEN q + 1
        ELSE IF q % 2 = 0 THEN q ELSE q + 1

\* metrics_data as first built (lines 225-234).
FreshMetrics(app_id, app_name) ==
    [application_name |-> app_name,
     application_id |-> app_id,
     calls_per_minute |-> 0,
     average_response_time |-> 0,
     errors_per_minute |-> 0,
     error_percentage |-> 0,
     health_status |-> "Unknown",
     timestamp |-> "2025-01-01 00:00:00"]

\* The three metric paths, in the order of the list metric_paths.
MetricPaths == <<"Calls per Minute", "Average Response Time", "Errors per Minute">>

\* The field _process_metric_data stores a value of the path into.
FieldOf(metric_path) ==
    IF metric_path = "Calls per Minute" THEN "calls_per_minute"
    ELSE IF metric_path = "Average Response Time" THEN "average_response_time"
    ELSE "errors_per_minute"

\* A value of a metricValues entry: a number (in hundredths), or text that
\* float() rejects.
Num(v) == [ok |-> TRUE, v |-> v]
BadValue == [ok |-> FALSE, v |-> 0]

\* _process_metric_data: for each metric of the body in turn, the last entry
\* of a non-empty metricValues is stored; an entry float() rejects raises,
\* which ends the loop (the except of line 305) with the values stored so far.
RECURSIVE ProcessMetricData(_, _, _)
ProcessMetricData(metric_data, metric_path, result) ==
    IF metric_data = <<>> THEN result
    ELSE LET metric_values == Head(metric_data)
         IN  IF metric_values = <<>>
             THEN ProcessMetricData(Tail(metric_data), metric_path, result)
             ELSE LET latest_value == metric_values[Len(metric_values)]
                  IN  IF ~latest_value.ok THEN result
                      ELSE ProcessMetricData(Tail(metric_data), metric_path,
                               [result EXCEPT ![FieldOf(metric_path)] = latest_value.v])

\* Faulty variant: a failed path discards the values stored by the earlier paths.
QueryPathDiscarding(md, metric_path, response) ==
    IF response.kind = "ok"
    THEN ProcessMetricData(response.body, metric_path, md)
    ELSE [md EXCEPT !.calls_per_minute = 0, !.average_response_time = 0,
                    !.errors_per_minute = 0]

\* One pass of the loop body of lines 250-269 for one path. A response is
\* [kind |-> "raise"] (session.get or response.json raised), [kind |->
\* "status"] (status_code is not 200) or [kind |-> "ok", body |-> ...].
QueryPath(md, metric_path, response) ==
    IF response.kind = "ok"
    THEN ProcessMetricData(response.body, metric_path, md)
    ELSE md

\* Faulty variant: the ratio is stored, not the percentage.
DeriveErrorRatio(md) ==
    IF md.calls_per_minute > 0
    THEN [md EXCEPT !.error_percentage =
              RoundHalfEven(md.errors_per_minute * 100, md.calls_per_minute)]
    ELSE md

\* Lines 271-275: the derived error percentage.
DeriveErrorPercentage(md) ==
    IF md.calls_per_minute > 0
    THEN [md EXCEPT !.error_percentage =
              RoundHalfEven(md.errors_per_minute * 10000, md.calls_per_minute)]
    ELSE md

\* Faulty variant: the sample is classified with the error percentage still 0.
ApplyHealthStatusEarly(md) ==
    [md EXCEPT !.health_status =
         DetermineHealthStatus([md EXCEPT !.error_percentage = 0])]

\* Line 278: the classification is stored into the sample.
ApplyHealthStatus(md) ==
    [md EXCEPT !.health_status = DetermineHealthStatus(md)]

\* The numbers a path may report (hundredths).
PathValues(metric_path) ==
    IF metric_path = "Calls per Minute" THEN {-100, 0, 32, 5000}
    ELSE IF metric_path = "Average Response Time" THEN {10000, 200001, 500001}
    ELSE {0, 1, 100, 300}

\* The response bodies a path may answer with: no metric, a metric without
\* values, one value, two values (the last is the latest), two metrics, a
\* value float() rejects alone or after a good metric.
Bodies(metric_path) ==
    {<<>>, << <<>> >>, << <<BadValue>> >>}
    \cup {<< <<Num(v)>> >> : v \in PathValues(metric_path)}
    \cup {<< <<Num(v), Num(w)>> >> : v, w \in PathValues(metric_path)}
    \cup {<< <<Num(v)>>, <<Num(w)>> >> : v, w \in PathValues(metric_path)}
    \cup {<< <<Num(v)>>, <<BadValue>> >> : v \in PathValues(metric_path)}

Responses(metric_path) ==
    {[kind |-> "raise"], [kind |-> "status"]}
    \cup {[kind |-> "ok", body |-> b] : b \in Bodies(metric_path)}

MetricsIdle ==
    /\ m_pc = "idle"
    /\ metrics_data = FreshMetrics(0, "none")
    /\ m_queried = <<>>
    /\ m_failed = {}
    /\ m_response = [kind |-> "none"]

\* Entry of the call: metrics_data is built.
MetricsInit ==
    /\ m_pc = "convert"
    /\ metrics_data \in {FreshMetrics(1, "app1")}
    /\ m_queried = <<>>
    /\ m_failed = {}
    /\ m_response = [kind |-> "none"]

\* Lines 236-239: the time window is converted. start_time.timestamp() can
\* raise (a date out of the platform's range); the outer except of line 280
\* then logs and the sample is returned as first built.
ConvertTimes ==
    /\ m_pc = "convert"
    /\ \E raises \in BOOLEAN :
          m_pc' = IF raises THEN "returned_after_error" ELSE "path1"
    /\ UNCHANGED <<metrics_data, m_queried, m_failed, m_response, healthVars, authVars, cliVars, traceVars, attemptVars, exportVars, choiceVars, fleetVars,
                   mainVars, collectVars, userVars>>

PathIndex == IF m_pc = "path1" THEN 1 ELSE IF m_pc = "path2" THEN 2 ELSE 3

NextPathPc == IF m_pc = "path1" THEN "path2"
              ELSE IF m_pc = "path2" THEN "path3" ELSE "derive"

\* One iteration of the for loop of line 250.
QueryNextPath ==
    /\ m_pc \in {"path1", "path2", "path3"}
    /\ LET metric_path == MetricPaths[PathIndex]
       IN  \E response \in Responses(metric_path) :
              /\ metrics_data' = QueryPath(metrics_data, metric_path, response)
              /\ m_queried' = Append(m_queried, metric_path)
              /\ m_failed' = IF response.kind = "ok" THEN m_failed
                             ELSE m_failed \cup {metric_path}
              /\ m_response' = response
    /\ m_pc' = NextPathPc
    /\ UNCHANGED <<healthVars, authVars, cliVars, traceVars, attemptVars, exportVars, choiceVars, fleetVars, mainVars, collectVars, userVars>>

\* Lines 271-283: derived metrics, classification, return.
DeriveAndClassify ==
    /\ m_pc = "derive"
    /\ metrics_data' = ApplyHealthStatus(DeriveErrorPercentage(metrics_data))
    /\ m_pc' = "returned"
    /\ UNCHANGED <<m_queried, m_failed, m_response, healthVars, authVars, cliVars, traceVars, attemptVars, exportVars, choiceVars, fleetVars, mainVars,
                   collectVars, userVars>>

Returned == m_pc \in {"returned", "returned_after_error"}

\* The whole call as one function of its answers: converts says whether the
\* time conversion of lines 238-239 succeeds, responses holds the answer to
\* each of the three paths.
GetApplicationMetrics(app_id, app_name, converts, responses) ==
    IF ~converts THEN FreshMetrics(app_id, app_name)
    ELSE ApplyHealthStatus(DeriveErrorPercentage(
             QueryPath(QueryPath(QueryPath(FreshMetrics(app_id, app_name),
                 MetricPaths[1], responses[1]),
                 MetricPaths[2], responses[2]),
                 MetricPaths[3], responses[3])))

-----------------------------------------------------------------------------
(* collect_metrics_threaded and main.                                      *)

\* CONFIG['THREAD_COUNT'].
THREAD_COUNT == 5

\* The longest application list the controller answers with.
MaxApps == 6

AppIds == 1 .. MaxApps

\* An application record of the controller's JSON answer; keys are the
\* keys the record carries.
App(i, keys) == [id |-> i, name |-> "app" \o ToString(i), keys |-> keys]

\* The application lists the controller may answer with: n well-formed
\* records, or the same with the first record lacking 'id', or with the
\* last record lacking 'name'.
AppLists ==
    UNION {
        {[i \in 1 .. n |-> App(i, {"id", "name"})]}
        \cup (IF n = 0 THEN {} ELSE
              {[i \in 1 .. n |-> App(i, IF i = 1 THEN {"name"} ELSE {"id", "name"})],
               [i \in 1 .. n |-> App(i, IF i = n THEN {"id"} ELSE {"id", "name"})]})
        : n \in 0 .. MaxApps}

\* What the controller answers to one application's three metric queries:
\* every request raising, or a healthy application's numbers.
FetchAnswers ==
    {[converts |-> TRUE,
      responses |-> <<[kind |-> "raise"], [kind |-> "raise"], [kind |-> "raise"]>>],
     [converts |-> TRUE,
      responses |-> <<[kind |-> "ok", body |-> << <<Num(5000)>> >>],
                      [kind |-> "ok", body |-> << <<Num(10000)>> >>],
                      [kind |-> "ok", body |-> << <<Num(0)>> >>]>>]}

NoSample == FreshMetrics(0, "none")

Terminated(i) == t_state[i] \in {"done", "dead"}

InFlight == {i \in AppIds : t_state[i] \notin {"unstarted", "done", "dead"}}

CollectIdle ==
    /\ c_pc = "idle"
    /\ c_next = 1
    /\ threads = <<>>
    /\ c_join = 1
    /\ t_state = [i \in AppIds |-> "unstarted"]
    /\ t_sample = [i \in AppIds |-> NoSample]
    /\ lock = 0
    /\ metrics_list = <<>>
    /\ completed = 0

MainIdle ==
    /\ main_pc = "idle"
    /\ main_rc = -1
    /\ configured = FALSE
    /\ token_data = [access_token |-> "None", valid |-> FALSE]
    /\ authorization = "None"
    /\ authenticated = "unset"
    /\ controller_apps = <<>>
    /\ applications = <<>>
    /\ performed = {}

\* The process at the entry of main(): the module globals as loaded, the
\* controller holding some application list.
MainInit ==
    /\ main_pc = "validate"
    /\ main_rc = -1
    /\ configured \in BOOLEAN
    /\ token_data = [access_token |-> "None", valid |-> FALSE]
    /\ authorization = "None"
    /\ authenticated = "unset"
    /\ controller_apps \in AppLists
    /\ applications = <<>>
    /\ performed = {}

\* return <code> from main.
MainReturn(code) ==
    /\ main_pc' = "exited"
    /\ main_rc' = code

\* Lines 664-682: the credentials check and the client's construction.
ValidateConfiguration ==
    /\ main_pc = "validate"
    /\ IF configured
       THEN main_pc' = "authenticate" /\ UNCHANGED main_rc
       ELSE MainReturn(1)
    /\ UNCHANGED <<configured, token_data, authorization, authenticated,
                   controller_apps, applications, performed>>
    /\ UNCHANGED <<healthVars, authVars, cliVars, traceVars, attemptVars, exportVars, choiceVars, fleetVars, metricVars, collectVars, userVars>>

\* AppDynamicsAPI._is_token_valid.
IsTokenValid == token_data.access_token # "None" /\ token_data.valid

\* Faulty variant: main goes on whatever authenticate returned.
AuthenticationPassedAlways(result) == TRUE

\* The test of line 685, if not api.authenticate().
AuthenticationPassed(result) == result = "True"

\* AppDynamicsAPI.authenticate (lines 120-174) and main's test of it
\* (lines 685-687). The token request answers 200 with a token, 200 with a
\* body that raises when read, another status, or raises.
Authenticate ==
    /\ main_pc = "authenticate"
    /\ IF IsTokenValid
       THEN /\ authenticated' = "True"
            /\ UNCHANGED <<token_data, authorization, performed>>
       ELSE \E answer \in {"token", "unreadable", "status", "raise"} :
               /\ performed' = performed \cup {"token_request"}
               /\ IF answer = "token"
                  THEN /\ token_data' = [access_token |-> "token1", valid |-> TRUE]
                       /\ authorization' = "Bearer token1"
                       /\ authenticated' = "True"
                  ELSE /\ authenticated' = "False"
                       /\ UNCHANGED <<token_data, authorization>>
    /\ IF AuthenticationPassed(authenticated')
       THEN main_pc' = "applications" /\ UNCHANGED main_rc
       ELSE MainReturn(1)
    /\ UNCHANGED <<configured, controller_apps, applications>>
    /\ UNCHANGED <<healthVars, authVars, cliVars, traceVars, attemptVars, exportVars, choiceVars, fleetVars, metricVars, collectVars, userVars>>

\* AppDynamicsAPI.get_applications (lines 182-209) and main's test of its
\* result (lines 690-693): the list on a 200, [] otherwise.
GetApplications ==
    /\ main_pc = "applications"
    /\ \E answer \in {"ok", "status", "raise"} :
          applications' = IF answer = "ok" THEN controller_apps ELSE <<>>
    /\ performed' = performed \cup {"list_applications"}
    /\ IF applications' = <<>>
       THEN MainReturn(1)
       ELSE main_pc' = "time_range" /\ UNCHANGED main_rc
    /\ UNCHANGED <<configured, token_data, authorization, authenticated,
                   controller_apps>>
    /\ UNCHANGED <<healthVars, authVars, cliVars, traceVars, attemptVars, exportVars, choiceVars, fleetVars, metricVars, collectVars, userVars>>

\* get_time_range() at line 696, then the entry of collect_metrics_threaded
\* (lines 612-615, 634). The prompt may raise (end of input, an interrupt),
\* which main's handlers of lines 729-734 turn into return 1.
GetTimeRange ==
    /\ main_pc = "time_range"
    /\ \E raises \in BOOLEAN :
          IF raises
          THEN MainReturn(1) /\ UNCHANGED collectVars
          ELSE /\ main_pc' = "collect"
               /\ UNCHANGED main_rc
               /\ c_pc' = "spawn"
               /\ metrics_list' = <<>>
               /\ completed' = 0
               /\ UNCHANGED <<c_next, threads, c_join, t_state, t_sample, lock>>
    /\ UNCHANGED <<configured, token_data, authorization, authenticated,
                   controller_apps, applications, performed>>
    /\ UNCHANGED <<healthVars, authVars, cliVars, traceVars, attemptVars, exportVars, choiceVars, fleetVars, metricVars, userVars>>

\* Faulty variant: the batch is joined one thread too late.
BatchFullLate(n) == n > THREAD_COUNT

\* The test of line 644, len(threads) >= CONFIG['THREAD_COUNT'].
BatchFull(n) == n >= THREAD_COUNT

\* Faulty variant: the loop passes over every other application.
NextApplicationSkipping(n) == n + 2

\* The for loop of line 638 goes on to the following application.
NextApplication(n) == n + 1

\* Lines 638-641 and the test of line 644: one iteration of the for loop
\* creates and starts the next application's thread.
StartThread ==
    /\ c_pc = "spawn"
    /\ c_next <= Len(applications)
    /\ t_state' = [t_state EXCEPT ![c_next] = "running"]
    /\ threads' = Append(threads, c_next)
    /\ c_next' = NextApplication(c_next)
    /\ c_join' = 1
    /\ c_pc' = IF BatchFull(Len(threads')) THEN "join_batch" ELSE "spawn"
    /\ UNCHANGED <<t_sample, lock, metrics_list, completed>>
    /\ UNCHANGED <<healthVars, authVars, cliVars, traceVars, attemptVars, exportVars, choiceVars, fleetVars, metricVars, mainVars, userVars>>

\* The for loop of line 638 is exhausted: on to the joins of line 650.
EndOfApplications ==
    /\ c_pc = "spawn"
    /\ c_next > Len(applications)
    /\ c_pc' = "join_rest"
    /\ c_join' = 1
    /\ UNCHANGED <<c_next, threads, t_state, t_sample, lock, metrics_list, completed>>
    /\ UNCHANGED <<healthVars, authVars, cliVars, traceVars, attemptVars, exportVars, choiceVars, fleetVars, metricVars, mainVars, userVars>>

\* Faulty variant: the join does not wait for the thread.
JoinableAtOnce(i) == TRUE

\* t.join() returns once the thread has ended.
Joinable(i) == Terminated(i)

\* Lines 645-647 and 650-651: the next join returns; after the last join
\* of a full batch the list is cleared and the for loop goes on.
JoinThread ==
    /\ c_pc \in {"join_batch", "join_rest"}
    /\ c_join <= Len(threads)
    /\ Joinable(threads[c_join])
    /\ IF c_pc = "join_batch" /\ c_join = Len(threads)
       THEN /\ threads' = <<>>
            /\ c_join' = 1
            /\ c_pc' = "spawn"
       ELSE /\ c_join' = c_join + 1
            /\ UNCHANGED <<threads, c_pc>>
    /\ UNCHANGED <<c_next, t_state, t_sample, lock, metrics_list, completed>>
    /\ UNCHANGED <<healthVars, authVars, cliVars, traceVars, attemptVars, exportVars, choiceVars, fleetVars, metricVars, mainVars, userVars>>

\* Lines 619-622 and 629-630 of collect_app_metrics: the arguments are read
\* from the record and get_application_metrics is called. A record without
\* 'id' raises KeyError, which the handler logs with app['name']; a record
\* without 'name' raises in the call or in the handler's message, and the
\* thread ends with that exception.
FetchMetrics(i) ==
    /\ t_state[i] = "running"
    /\ LET app == applications[i]
       IN  IF "name" \notin app.keys
           THEN /\ t_state' = [t_state EXCEPT ![i] = "dead"]
                /\ UNCHANGED <<t_sample, performed>>
           ELSE IF "id" \notin app.keys
           THEN /\ t_state' = [t_state EXCEPT ![i] = "failed"]
                /\ UNCHANGED <<t_sample, performed>>
           ELSE \E answer \in FetchAnswers :
                   /\ t_sample' = [t_sample EXCEPT ![i] =
                          GetApplicationMetrics(app.id, app.name,
                              answer.converts, answer.responses)]
                   /\ t_state' = [t_state EXCEPT ![i] = "fetched"]
                   /\ performed' = performed \cup {"metric_fetch"}
    /\ UNCHANGED <<c_pc, c_next, threads, c_join, lock, metrics_list, completed>>
    /\ UNCHANGED <<main_pc, main_rc, configured, token_data, authorization,
                   authenticated, controller_apps, applications>>
    /\ UNCHANGED <<healthVars, authVars, cliVars, traceVars, attemptVars, exportVars, choiceVars, fleetVars, metricVars, userVars>>

\* with lock: (lines 623 and 631) entered.
AcquireLock(i) ==
    /\ t_state[i] \in {"fetched", "failed"}
    /\ lock = 0
    /\ lock' = i
    /\ t_state' = [t_state EXCEPT ![i] =
                      IF t_state[i] = "fetched" THEN "appending" ELSE "counting"]
    /\ UNCHANGED <<c_pc, c_next, threads, c_join, t_sample, metrics_list, completed>>
    /\ UNCHANGED <<healthVars, authVars, cliVars, traceVars, attemptVars, exportVars, choiceVars, fleetVars, metricVars, mainVars, userVars>>

\* Lines 624-628: the sample is appended, completed counted, the lock left.
AppendSample(i) ==
    /\ t_state[i] = "appending"
    /\ metrics_list' = Append(metrics_list, t_sample[i])
    /\ completed' = completed + 1
    /\ lock' = 0
    /\ t_state' = [t_state EXCEPT ![i] = "done"]
    /\ UNCHANGED <<c_pc, c_next, threads, c_join, t_sample>>
    /\ UNCHANGED <<healthVars, authVars, cliVars, traceVars, attemptVars, exportVars, choiceVars, fleetVars, metricVars, mainVars, userVars>>

\* Lines 631-632: the failure is counted, nothing is appended.
CountFailure(i) ==
    /\ t_state[i] = "counting"
    /\ completed' = completed + 1
    /\ lock' = 0
    /\ t_state' = [t_state EXCEPT ![i] = "done"]
    /\ UNCHANGED <<c_pc, c_next, threads, c_join, t_sample, metrics_list>>
    /\ UNCHANGED <<healthVars, authVars, cliVars, traceVars, attemptVars, exportVars, choiceVars, fleetVars, metricVars, mainVars, userVars>>

\* collect_app_metrics (lines 617-632) from its start to the thread's end:
\* the fetch, then under the lock the sample appended or the failure
\* counted; a record without 'name' ends the thread with a KeyError.
CollectAppMetrics(i) ==
    /\ t_state[i] = "running"
    /\ lock = 0
    /\ LET app == applications[i]
       IN  IF "name" \notin app.keys
           THEN /\ t_state' = [t_state EXCEPT ![i] = "dead"]
                /\ UNCHANGED <<t_sample, performed, metrics_list, completed>>
           ELSE IF "id" \notin app.keys
           THEN /\ t_state' = [t_state EXCEPT ![i] = "done"]
                /\ completed' = completed + 1
                /\ UNCHANGED <<t_sample, performed, metrics_list>>
           ELSE \E answer \in FetchAnswers :
                   /\ t_sample' = [t_sample EXCEPT ![i] =
                          GetApplicationMetrics(app.id, app.name,
                              answer.converts, answer.responses)]
                   /\ metrics_list' = Append(metrics_list, t_sample'[i])
                   /\ completed' = completed + 1
                   /\ t_state' = [t_state EXCEPT ![i] = "done"]
                   /\ performed' = performed \cup {"metric_fetch"}
    /\ UNCHANGED <<c_pc, c_next, threads, c_join, lock>>
    /\ UNCHANGED <<main_pc, main_rc, configured, token_data, authorization,
                   authenticated, controller_apps, applications>>
    /\ UNCHANGED <<healthVars, authVars, cliVars, traceVars, attemptVars, exportVars, choiceVars, fleetVars, metricVars, userVars>>

\* Faulty variant: main goes on with whatever was collected.
NothingCollectedNever(data) == FALSE

\* if not metrics_data: (line 701).
NothingCollected(data) == data = <<>>

\* Lines 650-654 and 701-703: the last join has returned, the function
\* returns its list, and main stops with 1 when the list is empty.
CollectReturn ==
    /\ main_pc = "collect"
    /\ c_pc = "join_rest"
    /\ c_join > Len(threads)
    /\ c_pc' = "returned"
    /\ IF NothingCollected(metrics_list)
       THEN MainReturn(1)
       ELSE main_pc' = "summary" /\ UNCHANGED main_rc
    /\ UNCHANGED <<c_next, threads, c_join, t_state, t_sample, lock,
                   metrics_list, completed>>
    /\ UNCHANGED <<configured, token_data, authorization, authenticated,
                   controller_apps, applications, performed>>
    /\ UNCHANGED <<healthVars, authVars, cliVars, traceVars, attemptVars, exportVars, choiceVars, fleetVars, metricVars, userVars>>

\* display_summary_stats(metrics_data) at line 706.
DisplaySummary ==
    /\ main_pc = "summary"
    /\ main_pc' = "export"
    /\ performed' = performed \cup {"summary"}
    /\ UNCHANGED <<main_rc, configured, token_data, authorization,
                   authenticated, controller_apps, applications>>
    /\ UNCHANGED <<healthVars, authVars, cliVars, traceVars, attemptVars, exportVars, choiceVars, fleetVars, metricVars, collectVars, userVars>>

-----------------------------------------------------------------------------
(* The journey simulator: UserJourney and RealisticEcommerceUser.          *)

\* UserJourney.JOURNEY_PATTERNS.
JOURNEY_PATTERNS ==
    [browser |->
        [weight |-> 40,
         steps |-> <<"homepage", "browse_products", "view_product", "exit">>],
     quick_shopper |->
        [weight |-> 25,
         steps |-> <<"homepage", "search_product", "view_product", "add_to_cart",
                     "checkout">>],
     comparison_shopper |->
        [weight |-> 20,
         steps |-> <<"homepage", "browse_products", "view_product",
                     "browse_products", "view_product", "add_to_cart", "view_cart",
                     "continue_shopping", "view_product", "add_to_cart", "checkout">>],
     returning_user |->
        [weight |-> 10,
         steps |-> <<"login", "view_orders", "browse_products", "view_product",
                     "add_to_cart", "checkout">>],
     cart_abandoner |->
        [weight |-> 5,
         steps |-> <<"homepage", "browse_products", "view_product", "add_to_cart",
                     "view_cart", "exit">>]]

\* The longest viewed_products and cart_items the model follows.
MaxViewed == 2
MaxCart == 1

\* random.randint(1, 100) of view_product, sampled at its two ends, and
\* random.randint(1, 3) of add_to_cart.
ProductIds == {1, 100}

\* Faulty variant: random.randint(1, 4).
QuantitiesToFour == 1 .. 4

Quantities == 1 .. 3

\* What an HTTP call of self.client comes back with: a response with one
\* of the status codes, or an exception.
HttpAnswers(codes) ==
    {[raised |-> TRUE, status |-> 0]}
    \cup {[raised |-> FALSE, status |-> c] : c \in codes}

\* The status codes each kind of request is answered with here.
PageCodes == {200, 500}
ProductCodes == {200, 404}
LoginCodes == {200, 401, 500}
RegistrationCodes == {200, 409}
OrderCodes == {200, 201, 500}

\* The answers to a request that is made only under a condition: every
\* answer when it is made, none to tell apart when it is not.
Following(requested, codes) ==
    IF requested THEN HttpAnswers(codes) ELSE {[raised |-> FALSE, status |-> 200]}

\* One request of self.client: its method, its name, the product id and
\* quantity it carries (0 when it carries none) and the status code of the
\* response (0 when the request raised).
Call(method, name, product_id, quantity, answer) ==
    [method |-> method, name |-> name, product_id |-> product_id,
     quantity |-> quantity, status |-> answer.status]

Attr(span, key, value) == <<span, key, value>>

\* What a step handler leaves behind: the session data, the calls issued,
\* the span attributes set, and whether it ended with an exception.
Outcome(sd, calls, attrs, raised) ==
    [sd |-> sd, calls |-> calls, attrs |-> attrs, raised |-> raised]

\* A span as tracer.start_span returns it: no exception recorded, status
\* unset.
NewSpan == [exceptions |-> 0, status |-> "UNSET"]

\* on_start's session_data (lines 121-126).
NewSession == [cart_items |-> <<>>, viewed_products |-> <<>>, auth_token |-> "None"]

\* Faulty variant: looking at a page empties viewed_products.
GetPageForgetting(sd, span, name, answer, attrs) ==
    Outcome([sd EXCEPT !.viewed_products = <<>>],
            <<Call("GET", name, 0, 0, answer)>>, {}, answer.raised)

\* visit_homepage, browse_products, search_products, view_cart and
\* view_orders: one GET, the status code (and the handler's own attributes)
\* set on the span, no change of session_data.

GetPage(sd, span, name, answer, attrs) ==
    IF answer.raised
    THEN Outcome(sd, <<Call("GET", name, 0, 0, answer)>>, {}, TRUE)
    ELSE Outcome(sd, <<Call("GET", name, 0, 0, answer)>>,
                 {Attr(span, "http.response.status_code", ToString(answer.status))}
                     \cup attrs,
                 FALSE)

VisitHomepage(sd, answer) == GetPage(sd, "visit_homepage", "Homepage", answer, {})

BrowseProducts(sd, category, answer) ==
    GetPage(sd, "browse_products",
            IF category = "all" THEN "Browse All Products"
            ELSE "Browse Products - " \o category,
            answer, {})

SearchProducts(sd, search_query, answer) ==
    GetPage(sd, "search_products", "Search - " \o search_query, answer,
            {Attr("search_products", "search.query", search_query)})

ViewCart(sd, answer) ==
    GetPage(sd, "view_cart", "View Cart", answer,
            {Attr("view_cart", "cart.items_count", ToString(Len(sd.cart_items)))})

ViewOrders(sd, answer) == GetPage(sd, "view_orders", "View Orders", answer, {})

\* Faulty variant: the registration request is not sent.
RegisterUserUnsent(sd, answer) == Outcome(sd, <<>>, {}, answer.raised)

\* register_user (lines 261-278).
RegisterUser(sd, answer) ==
    IF answer.raised
    THEN Outcome(sd, <<Call("POST", "User Registration", 0, 0, answer)>>, {}, TRUE)
    ELSE Outcome(sd, <<Call("POST", "User Registration", 0, 0, answer)>>,
                 {Attr("register_user", "http.response.status_code",
                       ToString(answer.status)),
                  Attr("register_user", "registration.success",
                       ToString(answer.status = 200))},
                 FALSE)

\* Faulty variant: every login that is not a success leads to a registration.
NeedsRegistrationUnlessSuccess(status) == status # 200

\* The test of line 243, response.status_code == 401.
NeedsRegistration(status) == status = 401

\* login_user (lines 229-259). first, registration and retry answer the
\* three requests; body is what a 200's JSON holds: a token, no "token" key
\* (get returns None), or text json() rejects.
LoginUser(sd, first, registration, retry, body) ==
    LET attempt == <<Call("POST", "Login Attempt", 0, 0, first)>>
        registered == RegisterUser(sd, registration)
        again == <<Call("POST", "Login After Registration", 0, 0, retry)>>
        Finish(calls, attrs, response) ==
            LET readable == response.status = 200 /\ body # "unreadable"
                stored == IF readable
                          THEN [sd EXCEPT !.auth_token =
                                    IF body = "no_token" THEN "None" ELSE body]
                          ELSE sd
                success == IF response.status # 200 THEN {}
                           ELSE {Attr("login_user", "login.success", ToString(readable))}
            IN  Outcome(stored, calls,
                        attrs \cup success
                            \cup {Attr("login_user", "http.response.status_code",
                                       ToString(response.status))},
                        FALSE)
    IN  IF first.raised THEN Outcome(sd, attempt, {}, TRUE)
        ELSE IF ~NeedsRegistration(first.status) THEN Finish(attempt, {}, first)
        ELSE IF registered.raised
        THEN Outcome(sd, attempt \o registered.calls, {}, TRUE)
        ELSE IF retry.raised
        THEN Outcome(sd, attempt \o registered.calls \o again, registered.attrs, TRUE)
        ELSE Finish(attempt \o registered.calls \o again, registered.attrs, retry)

\* Faulty variant: the product counts as viewed whatever the answer.
ProductShownAlways(status) == TRUE

\* The test of line 334, response.status_code == 200.
ProductShown(status) == status = 200

\* view_product (lines 321-337).
ViewProduct(sd, product_id, answer) ==
    LET call == <<Call("GET", "View Product", product_id, 0, answer)>>
    IN  IF answer.raised THEN Outcome(sd, call, {}, TRUE)
        ELSE Outcome(
                 IF ProductShown(answer.status)
                 THEN [sd EXCEPT !.viewed_products = Append(@, product_id)]
                 ELSE sd,
                 call,
                 {Attr("view_product", "http.response.status_code",
                       ToString(answer.status)),
                  Attr("view_product", "product.id", ToString(product_id))},
                 FALSE)

\* Faulty variant: add_to_cart does not view a product first.
AfterViewSkipped(sd, view_id, view_answer) == Outcome(sd, <<>>, {}, FALSE)

\* Lines 342-344 of add_to_cart: a product is viewed first when none was.
AfterView(sd, view_id, view_answer) ==
    IF sd.viewed_products = <<>>
    THEN ViewProduct(sd, view_id, view_answer)
    ELSE Outcome(sd, <<>>, {}, FALSE)

\* Faulty variant: the item is put into cart_items whatever the answer.
CartAcceptedAlways(status) == TRUE

\* The test of line 364, response.status_code in [200, 201].
CartAccepted(status) == status \in {200, 201}

\* add_to_cart (lines 339-368). view_id and view_answer feed the
\* view_product call made when nothing was viewed yet; choice is the index
\* random.choice picks in viewed_products.
AddToCart(sd, view_id, view_answer, choice, quantity, answer) ==
    LET viewed == AfterView(sd, view_id, view_answer)
        products == viewed.sd.viewed_products
    IN  IF viewed.raised \/ products = <<>> THEN viewed
        ELSE LET product_id == products[choice]
                 post == <<Call("POST", "Add to Cart", product_id, quantity, answer)>>
             IN  IF answer.raised
                 THEN Outcome(viewed.sd, viewed.calls \o post, viewed.attrs, TRUE)
                 ELSE Outcome(
                          IF CartAccepted(answer.status)
                          THEN [viewed.sd EXCEPT !.cart_items =
                                    Append(@, [productId |-> product_id,
                                               quantity |-> quantity])]
                          ELSE viewed.sd,
                          viewed.calls \o post,
                          viewed.attrs
                              \cup {Attr("add_to_cart", "http.response.status_code",
                                         ToString(answer.status)),
                                    Attr("add_to_cart", "cart.product_id",
                                         ToString(product_id)),
                                    Attr("add_to_cart", "cart.quantity",
                                         ToString(quantity))},
                          FALSE)

\* Faulty variant: checkout posts the order without looking at the cart.
CheckoutUnguarded(sd, answer) ==
    LET post == <<Call("POST", "Checkout", 0, 0, answer)>>
    IN  IF answer.raised THEN Outcome(sd, post, {}, TRUE)
        ELSE Outcome(
                 IF answer.status \in {200, 201}
                 THEN [sd EXCEPT !.cart_items = <<>>]
                 ELSE sd,
                 post,
                 {Attr("checkout", "http.response.status_code",
                       ToString(answer.status))},
                 FALSE)

\* Faulty variant: only a 200 counts as a placed order.
CheckoutSucceededOn200(status) == status = 200

\* The test of line 413, response.status_code in [200, 201].
CheckoutSucceeded(status) == status \in {200, 201}

\* checkout (lines 383-417).
Checkout(sd, answer) ==
    LET post == <<Call("POST", "Checkout", 0, 0, answer)>>
    IN  IF sd.cart_items = <<>>
        THEN Outcome(sd, <<>>,
                     {Attr("checkout", "checkout.abandoned", "TRUE"),
                      Attr("checkout", "checkout.reason", "empty_cart")},
                     FALSE)
        ELSE IF answer.raised THEN Outcome(sd, post, {}, TRUE)
        ELSE Outcome(
                 IF CheckoutSucceeded(answer.status)
                 THEN [sd EXCEPT !.cart_items = <<>>]
                 ELSE sd,
                 post,
                 {Attr("checkout", "http.response.status_code",
                       ToString(answer.status)),
                  Attr("checkout", "checkout.items_count",
                       ToString(Len(sd.cart_items))),
                  Attr("checkout", "checkout.success",
                       ToString(CheckoutSucceeded(answer.status)))},
                 FALSE)

UserIdle ==
    /\ u_pc = "idle"
    /\ session_data = NewSession
    /\ journey = <<>>
    /\ step_idx = 1
    /\ last_step = "none"
    /\ step_calls = <<>>
    /\ step_attrs = {}
    /\ step_raised = FALSE
    /\ executed = <<>>
    /\ journey_span = NewSpan

\* The user as locust creates it, before on_start.
UserInit ==
    /\ u_pc = "created"
    /\ session_data = NewSession
    /\ journey = <<>>
    /\ step_idx = 1
    /\ last_step = "none"
    /\ step_calls = <<>>
    /\ step_attrs = {}
    /\ step_raised = FALSE
    /\ executed = <<>>
    /\ journey_span = NewSpan

\* on_start (lines 118-140).
OnStart ==
    /\ u_pc = "created"
    /\ u_pc' = "waiting"
    /\ session_data' = NewSession
    /\ UNCHANGED <<journey, step_idx, last_step, step_calls, step_attrs, step_raised,
                   executed, journey_span>>
    /\ UNCHANGED <<healthVars, authVars, cliVars, traceVars, attemptVars, exportVars, choiceVars, fleetVars, metricVars, mainVars, collectVars>>

\* list(cls.JOURNEY_PATTERNS.keys()) of line 105: the names in the order
\* of the table.
PatternNames ==
    <<"browser", "quick_shopper", "comparison_shopper", "returning_user",
      "cart_abandoner">>

\* The list weights of line 106.
WeightsOf(table) == [k \in 1 .. Len(PatternNames) |-> table[PatternNames[k]].weight]

\* itertools.accumulate(weights), as random.choices computes it.
RECURSIVE Accumulate(_)
Accumulate(weights) ==
    IF weights = <<>> THEN <<>>
    ELSE LET front == Accumulate(SubSeq(weights, 1, Len(weights) - 1))
         IN  Append(front,
                    (IF front = <<>> THEN 0 ELSE front[Len(front)])
                        + weights[Len(weights)])

\* bisect.bisect_right(a, x, lo, hi) on the 0-based list a.
RECURSIVE BisectRight(_, _, _, _)
BisectRight(a, x, lo, hi) ==
    IF lo < hi
    THEN LET mid == (lo + hi) \div 2
         IN  IF x < a[mid + 1] THEN BisectRight(a, x, lo, mid)
             ELSE BisectRight(a, x, mid + 1, hi)
    ELSE lo

\* Faulty variant: the draw is scaled as if the weights summed to 100.
DrawsOfHundred(total) == 0 .. 99

\* random() * total of random.choices lies in [0, total); it is followed
\* at the whole numbers, each standing for the interval up to the next.
Draws(total) == 0 .. (total - 1)

\* random.choices(population, weights=weights)[0] of line 108 for the draw
\* x: ValueError when the total of the weights is not positive.
RandomChoices(population, weights, x) ==
    LET cum_weights == Accumulate(weights)
        total == cum_weights[Len(cum_weights)]
    IN  IF total <= 0 THEN "ValueError"
        ELSE population[BisectRight(cum_weights, x, 0, Len(population) - 1) + 1]

\* The total of the weights random.choices scales its draw with.
TotalWeight(table) ==
    LET cum_weights == Accumulate(WeightsOf(table))
    IN  cum_weights[Len(cum_weights)]

\* UserJourney.get_random_journey (lines 102-109): the names it can choose.
ChosenPatterns(table) ==
    {RandomChoices(PatternNames, WeightsOf(table), x) : x \in Draws(TotalWeight(table))}

\* UserJourney.get_random_journey (lines 102-109): the step lists it can
\* return from JOURNEY_PATTERNS.
GetRandomJourney == {JOURNEY_PATTERNS[name].steps : name \in ChosenPatterns(JOURNEY_PATTERNS)}

\* execute_user_journey up to its loop (lines 170-177): a journey is
\* picked and the span user_journey started.
StartJourney ==
    /\ u_pc = "waiting"
    /\ \E steps \in GetRandomJourney : journey' = steps
    /\ step_idx' = 1
    /\ executed' = <<>>
    /\ journey_span' = NewSpan
    /\ spans' = <<>>
    /\ u_pc' = "journey"
    /\ UNCHANGED <<session_data, last_step, step_calls, step_attrs, step_raised>>
    /\ UNCHANGED <<healthVars, authVars, cliVars, attemptVars, exportVars, choiceVars, fleetVars, metricVars, mainVars, collectVars>>

\* Faulty variant: the span is ended only at the end of the block, which a
\* raise does not reach.
WithSpanLeaking(name, raised) == [name |-> name, ended |-> ~raised]

\* with tracer.start_span(name) as span: (line 190): the span is started on
\* entry and ended by its __exit__ on leaving the block, by its end or by an
\* exception.
WithSpan(name, raised) == [name |-> name, ended |-> TRUE]

TraceIdle == spans = <<>>

\* Faulty variant: the loop goes on after a step that raised.
StepEndsJourneyNever(out) == FALSE

\* The except clause of lines 182-186 is entered: the step raised.
StepEndsJourney(out) == out.raised

\* execute_step (lines 188-216) around a handler's outcome, then the try
\* of execute_user_journey up to the think time (lines 178-186): the
\* handler ran inside the span step_<name>; step.completed is set when it
\* did not raise; a raise is recorded on the span user_journey, whose status
\* becomes ERROR, and the break ends the journey.
FinishStep(step, out) ==
    /\ Len(out.sd.viewed_products) <= MaxViewed
    /\ Len(out.sd.cart_items) <= MaxCart
    /\ session_data' = out.sd
    /\ last_step' = step
    /\ step_calls' = out.calls
    /\ step_raised' = out.raised
    /\ step_attrs' = IF out.raised THEN out.attrs
                     ELSE out.attrs \cup {Attr("step_" \o step, "step.completed", "TRUE")}
    /\ executed' = Append(executed, step)
    /\ spans' = Append(spans, WithSpan("step_" \o step, out.raised))
    /\ journey_span' = IF out.raised
                       THEN [exceptions |-> journey_span.exceptions + 1,
                             status |-> "ERROR"]
                       ELSE journey_span
    /\ IF StepEndsJourney(out)
       THEN u_pc' = "waiting" /\ step_idx' = 1
       ELSE u_pc' = "think" /\ UNCHANGED step_idx
    /\ UNCHANGED journey
    /\ UNCHANGED <<healthVars, authVars, cliVars, attemptVars, exportVars, choiceVars, fleetVars, metricVars, mainVars, collectVars>>

\* Faulty variant: the loop starts over after the last step.
NextStepAround(idx, steps) == IF idx = Len(steps) THEN 1 ELSE idx + 1

\* The for loop of line 177 moves to the following step.
NextStep(idx, steps) == idx + 1

\* wait_between_actions (lines 470-473) at line 181, then the for loop of
\* line 177: the next step, or the end of execute_user_journey.
WaitBetweenActions ==
    /\ u_pc = "think"
    /\ IF NextStep(step_idx, journey) > Len(journey)
       THEN u_pc' = "waiting" /\ step_idx' = 1
       ELSE u_pc' = "journey" /\ step_idx' = NextStep(step_idx, journey)
    /\ UNCHANGED <<session_data, journey, last_step, step_calls, step_attrs,
                   step_raised, executed, journey_span>>
    /\ UNCHANGED <<healthVars, authVars, cliVars, traceVars, attemptVars, exportVars, choiceVars, fleetVars, metricVars, mainVars, collectVars>>

\* The loop of line 177 is at a step that execute_step dispatches to the
\* handler of this name.
AtStep(step) ==
    /\ u_pc = "journey"
    /\ step_idx <= Len(journey)
    /\ journey[step_idx] = step

StepHomepage ==
    /\ AtStep("homepage")
    /\ \E answer \in HttpAnswers(PageCodes) :
          FinishStep("homepage", VisitHomepage(session_data, answer))

StepLogin ==
    /\ AtStep("login")
    /\ \E first \in HttpAnswers(LoginCodes) :
       \E registration \in Following(NeedsRegistration(first.status), RegistrationCodes) :
       \E retry \in Following(NeedsRegistration(first.status) /\ ~registration.raised,
                              LoginCodes) :
       \E body \in {"token1", "no_token", "unreadable"} :
          FinishStep("login", LoginUser(session_data, first, registration, retry, body))

StepBrowseProducts ==
    /\ AtStep("browse_products")
    /\ \E answer \in HttpAnswers(PageCodes) : \E category \in {"all", "electronics"} :
          FinishStep("browse_products", BrowseProducts(session_data, category, answer))

StepSearchProduct ==
    /\ AtStep("search_product")
    /\ \E answer \in HttpAnswers(PageCodes) : \E search_query \in {"laptop", "backpack"} :
          FinishStep("search_product", SearchProducts(session_data, search_query, answer))

StepViewProduct ==
    /\ AtStep("view_product")
    /\ \E answer \in HttpAnswers(ProductCodes) : \E product_id \in ProductIds :
          FinishStep("view_product", ViewProduct(session_data, product_id, answer))

StepAddToCart ==
    /\ AtStep("add_to_cart")
    /\ \E view_answer \in Following(session_data.viewed_products = <<>>, ProductCodes) :
       \E view_id \in (IF session_data.viewed_products = <<>> THEN ProductIds ELSE {1}) :
       \E choice \in 1 .. MaxViewed :
       \E quantity \in Quantities :
       \E answer \in HttpAnswers(OrderCodes) :
          /\ choice <= Len(AfterView(session_data, view_id, view_answer).sd.viewed_products)
                 \/ choice = 1
          /\ FinishStep("add_to_cart",
                        AddToCart(session_data, view_id, view_answer, choice,
                                  quantity, answer))

StepViewCart ==
    /\ AtStep("view_cart")
    /\ \E answer \in HttpAnswers(PageCodes) :
          FinishStep("view_cart", ViewCart(session_data, answer))

StepCheckout ==
    /\ AtStep("checkout")
    /\ \E answer \in HttpAnswers(OrderCodes) :
          FinishStep("checkout", Checkout(session_data, answer))

StepViewOrders ==
    /\ AtStep("view_orders")
    /\ \E answer \in HttpAnswers(PageCodes) :
          FinishStep("view_orders", ViewOrders(session_data, answer))

StepContinueShopping ==
    /\ AtStep("continue_shopping")
    /\ \E answer \in HttpAnswers(PageCodes) : \E category \in {"all", "electronics"} :
          FinishStep("continue_shopping", BrowseProducts(session_data, category, answer))

StepExit ==
    /\ AtStep("exit")
    /\ FinishStep("exit", Outcome(session_data, <<>>, {}, FALSE))

\* on_stop (lines 142-149): locust stops the user between two tasks.
OnStop ==
    /\ u_pc = "waiting"
    /\ u_pc' = "stopped"
    /\ UNCHANGED <<session_data, journey, step_idx, last_step, step_calls,
                   step_attrs, step_raised, executed, journey_span>>
    /\ UNCHANGED <<healthVars, authVars, cliVars, traceVars, attemptVars, exportVars, choiceVars, fleetVars, metricVars, mainVars, collectVars>>


-----------------------------------------------------------------------------
(* Several users of the class RealisticEcommerceUser running at once, each *)
(* in its own greenlet. The dictionaries the users hold are objects of a   *)
(* heap; a user reaches its own through self.session_data.                 *)

\* The users the runner of lines 491-495 has spawned.
Users == {1, 2}

\* Faulty variant: one dictionary shared by the users of the class.
AllocateShared(objects) == 1

\* The dictionary literal of lines 121-126 is a new object.
Allocate(objects) == Len(objects) + 1

FleetIdle ==
    /\ heap = <<>>
    /\ session_ref = [u \in Users |-> 0]
    /\ fleet_pc = [u \in Users |-> "idle"]
    /\ actor = 0

\* The users as the runner creates them, before on_start.
FleetInit ==
    /\ heap = <<>>
    /\ session_ref = [u \in Users |-> 0]
    /\ fleet_pc = [u \in Users |-> "created"]
    /\ actor = 0

\* on_start of user u (lines 118-140).
UserOnStart(u) ==
    /\ fleet_pc[u] = "created"
    /\ LET object == Allocate(heap)
       IN  /\ heap' = IF object > Len(heap) THEN Append(heap, NewSession)
                      ELSE [heap EXCEPT ![object] = NewSession]
           /\ session_ref' = [session_ref EXCEPT ![u] = object]
    /\ fleet_pc' = [fleet_pc EXCEPT ![u] = "running"]
    /\ actor' = u
    /\ UNCHANGED <<healthVars, authVars, cliVars, traceVars, attemptVars, exportVars, choiceVars, metricVars, mainVars, collectVars, userVars>>

\* self.session_data of user u.
SessionOf(u) == heap[session_ref[u]]

\* User u has executed a step whose handler left out behind: what it did
\* to session_data it did to the dictionary the user refers to.
UserFinishStep(u, out) ==
    /\ Len(out.sd.viewed_products) <= MaxViewed
    /\ Len(out.sd.cart_items) <= MaxCart
    /\ heap' = [heap EXCEPT ![session_ref[u]] = out.sd]
    /\ actor' = u
    /\ UNCHANGED <<session_ref, fleet_pc>>
    /\ UNCHANGED <<healthVars, authVars, cliVars, traceVars, attemptVars, exportVars, choiceVars, metricVars, mainVars, collectVars, userVars>>

\* execute_step of user u for one of the steps that only look at a page,
\* or exit (lines 192-199, 204-205, 208-214).
UserPageStep(u) ==
    /\ fleet_pc[u] = "running"
    /\ \E answer \in HttpAnswers({200}) :
          \/ UserFinishStep(u, VisitHomepage(SessionOf(u), answer))
          \/ UserFinishStep(u, BrowseProducts(SessionOf(u), "all", answer))
          \/ UserFinishStep(u, SearchProducts(SessionOf(u), "laptop", answer))
          \/ UserFinishStep(u, ViewCart(SessionOf(u), answer))
          \/ UserFinishStep(u, ViewOrders(SessionOf(u), answer))
          \/ UserFinishStep(u, Outcome(SessionOf(u), <<>>, {}, FALSE))

\* execute_step("login") of user u.
UserLogin(u) ==
    /\ fleet_pc[u] = "running"
    /\ \E first \in HttpAnswers(LoginCodes) :
       \E registration \in Following(NeedsRegistration(first.status), RegistrationCodes) :
       \E retry \in Following(NeedsRegistration(first.status) /\ ~registration.raised,
                              LoginCodes) :
       \E body \in {"token1", "unreadable"} :
          UserFinishStep(u, LoginUser(SessionOf(u), first, registration, retry, body))

\* execute_step("view_product") of user u.
UserViewProduct(u) ==
    /\ fleet_pc[u] = "running"
    /\ \E answer \in HttpAnswers(ProductCodes) : \E product_id \in {1} :
          UserFinishStep(u, ViewProduct(SessionOf(u), product_id, answer))

\* execute_step("add_to_cart") of user u.
UserAddToCart(u) ==
    /\ fleet_pc[u] = "running"
    /\ \E view_answer \in Following(SessionOf(u).viewed_products = <<>>, ProductCodes) :
       \E view_id \in {1} :
       \E choice \in 1 .. MaxViewed :
       \E quantity \in {1} :
       \E answer \in HttpAnswers(OrderCodes) :
          /\ choice <= Len(AfterView(SessionOf(u), view_id, view_answer).sd.viewed_products)
                 \/ choice = 1
          /\ UserFinishStep(u, AddToCart(SessionOf(u), view_id, view_answer, choice,
                                         quantity, answer))

\* execute_step("checkout") of user u.
UserCheckout(u) ==
    /\ fleet_pc[u] = "running"
    /\ \E answer \in HttpAnswers(OrderCodes) :
          UserFinishStep(u, Checkout(SessionOf(u), answer))

\* on_stop of user u (lines 142-149).
UserOnStop(u) ==
    /\ fleet_pc[u] = "running"
    /\ fleet_pc' = [fleet_pc EXCEPT ![u] = "stopped"]
    /\ actor' = u
    /\ UNCHANGED <<heap, session_ref>>
    /\ UNCHANGED <<healthVars, authVars, cliVars, traceVars, attemptVars, exportVars, choiceVars, metricVars, mainVars, collectVars, userVars>>


-----------------------------------------------------------------------------
(* UserJourney.get_random_journey on its own, for weight tables other than *)
(* the one of the class as well.                                           *)

\* The largest weight of the other tables.
MaxWeight == 2

\* JOURNEY_PATTERNS with other weights.
Reweighted(weights) ==
    [name \in DOMAIN JOURNEY_PATTERNS |->
        [weight |-> weights[name], steps |-> JOURNEY_PATTERNS[name].steps]]

WeightTables ==
    {JOURNEY_PATTERNS}
    \cup {Reweighted(weights) : weights \in [DOMAIN JOURNEY_PATTERNS -> 0 .. MaxWeight]}

ChoiceIdle ==
    /\ patterns = JOURNEY_PATTERNS
    /\ pick_pc = "idle"
    /\ chosen_pattern = "none"
    /\ picked = <<>>
    /\ walked = 0

ChoiceInit ==
    /\ patterns \in WeightTables
    /\ pick_pc = "ready"
    /\ chosen_pattern = "none"
    /\ picked = <<>>
    /\ walked = 0

\* get_random_journey (lines 102-109) called at line 172.
PickJourney ==
    /\ pick_pc = "ready"
    /\ IF TotalWeight(patterns) <= 0
       THEN /\ pick_pc' = "ValueError"
            /\ chosen_pattern' = "none"
            /\ picked' = <<>>
       ELSE \E x \in Draws(TotalWeight(patterns)) :
               LET name == RandomChoices(PatternNames, WeightsOf(patterns), x)
               IN  /\ chosen_pattern' = name
                   /\ picked' = patterns[name].steps
                   /\ pick_pc' = "picked"
    /\ walked' = 0
    /\ UNCHANGED patterns
    /\ UNCHANGED <<healthVars, authVars, cliVars, traceVars, attemptVars, exportVars, metricVars, mainVars, collectVars, userVars, fleetVars>>

\* The for loop of line 177 takes the next step of the list returned.
WalkJourney ==
    /\ pick_pc = "picked"
    /\ walked < Len(picked)
    /\ walked' = walked + 1
    /\ UNCHANGED <<patterns, pick_pc, chosen_pattern, picked>>
    /\ UNCHANGED <<healthVars, authVars, cliVars, traceVars, attemptVars, exportVars, metricVars, mainVars, collectVars, userVars, fleetVars>>

\* The for loop has ended; the task is scheduled again.
EndJourney ==
    /\ pick_pc = "picked"
    /\ walked = Len(picked)
    /\ pick_pc' = "ready"
    /\ UNCHANGED <<patterns, chosen_pattern, picked, walked>>
    /\ UNCHANGED <<healthVars, authVars, cliVars, traceVars, attemptVars, exportVars, metricVars, mainVars, collectVars, userVars, fleetVars>>


-----------------------------------------------------------------------------
(* The CSV writers: MetricsExporter.export_to_csv of appdynamics_metrics   *)
(* and export_demo_csv of demo_metrics_data. A file is its lines, a line   *)
(* its cells taken apart at the separators; a number is written so that it *)
(* reads back as the same number.                                          *)

\* generate_demo_metrics (demo_metrics_data.py, lines 12-78).
GenerateDemoMetrics ==
    <<[application_name |-> "User-Service", application_id |-> 1001,
       calls_per_minute |-> 4530, average_response_time |-> 12050,
       errors_per_minute |-> 80, error_percentage |-> 177,
       health_status |-> "Healthy", timestamp |-> "2025-01-01 00:00:00"],
      [application_name |-> "Product-Service", application_id |-> 1002,
       calls_per_minute |-> 7890, average_response_time |-> 9520,
       errors_per_minute |-> 210, error_percentage |-> 266,
       health_status |-> "Warning", timestamp |-> "2025-01-01 00:00:00"],
      [application_name |-> "Cart-Service", application_id |-> 1003,
       calls_per_minute |-> 3460, average_response_time |-> 8530,
       errors_per_minute |-> 30, error_percentage |-> 87,
       health_status |-> "Healthy", timestamp |-> "2025-01-01 00:00:00"],
      [application_name |-> "Order-Service", application_id |-> 1004,
       calls_per_minute |-> 2370, average_response_time |-> 18040,
       errors_per_minute |-> 50, error_percentage |-> 211,
       health_status |-> "Healthy", timestamp |-> "2025-01-01 00:00:00"],
      [application_name |-> "API-Gateway", application_id |-> 1005,
       calls_per_minute |-> 15680, average_response_time |-> 4570,
       errors_per_minute |-> 820, error_percentage |-> 523,
       health_status |-> "Critical", timestamp |-> "2025-01-01 00:00:00"],
      [application_name |-> "Frontend-Service", application_id |-> 1006,
       calls_per_minute |-> 8920, average_response_time |-> 6780,
       errors_per_minute |-> 140, error_percentage |-> 157,
       health_status |-> "Healthy", timestamp |-> "2025-01-01 00:00:00"]>>

\* The keys of a sample, in the order of the dictionary literal of lines
\* 225-234: the columns of pd.DataFrame(data).
SampleKeys ==
    <<"application_name", "application_id", "calls_per_minute",
      "average_response_time", "errors_per_minute", "error_percentage",
      "health_status", "timestamp">>

\* Faulty variant: two columns of the order exchanged.
ColumnOrderExchanged ==
    <<"application_name", "average_response_time", "calls_per_minute",
      "errors_per_minute", "error_percentage", "health_status", "timestamp">>

\* column_order (lines 358-361).
ColumnOrder ==
    <<"application_name", "calls_per_minute", "average_response_time",
      "errors_per_minute", "error_percentage", "health_status", "timestamp">>

\* The display names (lines 365-368, and fieldnames of export_demo_csv).
DisplayNames ==
    <<"Application Name", "Calls/Min", "Avg Response Time (ms)", "Errors/Min",
      "Error Rate (%)", "Health Status", "Timestamp">>

\* pd.DataFrame(data): the columns are the keys of the dictionaries, a row
\* holds a dictionary's values in the order of the columns.
DataFrame(data) ==
    [columns |-> IF data = <<>> THEN <<>> ELSE SampleKeys,
     rows |-> [i \in 1 .. Len(data) |->
                  [k \in 1 .. Len(SampleKeys) |-> data[i][SampleKeys[k]]]]]

\* df.reindex(columns=order): the columns named, in that order; a column
\* the frame does not have is filled with NaN.
Reindex(df, order) ==
    LET Position(name) ==
            IF \E j \in 1 .. Len(df.columns) : df.columns[j] = name
            THEN CHOOSE j \in 1 .. Len(df.columns) : df.columns[j] = name
            ELSE 0
    IN  [columns |-> order,
         rows |-> [i \in 1 .. Len(df.rows) |->
                      [k \in 1 .. Len(order) |->
                          IF Position(order[k]) = 0 THEN "NaN"
                          ELSE df.rows[i][Position(order[k])]]]]

\* df.columns = names: the columns renamed by position.
Rename(df, names) == [df EXCEPT !.columns = names]

\* df.to_csv(filename, index=False): the header line, then a line per row.
ToCsv(df) == <<df.columns>> \o df.rows

\* No file of the name.
NoFile == [exists |-> FALSE, lines |-> <<>>]

\* What a writer that failed on the way may have left of lines.
Remains(lines) ==
    {NoFile} \cup {[exists |-> TRUE, lines |-> SubSeq(lines, 1, n)] :
                      n \in 0 .. (Len(lines) - 1)}

\* The try of an exporter (lines 353-377 and 391-472): True when the file
\* was written, False from the except branch.
ExporterReturns(disk) == IF disk = "ok" THEN "True" ELSE "False"

\* MetricsExporter.export_to_csv (lines 342-377): the file left behind and
\* the value returned, on a disk that takes the file or fails it.
ExportToCsv(data, disk) ==
    LET lines == ToCsv(Rename(Reindex(DataFrame(data), ColumnOrder), DisplayNames))
    IN  IF disk = "ok"
        THEN {[file |-> [exists |-> TRUE, lines |-> lines],
               returned |-> ExporterReturns(disk)]}
        ELSE {[file |-> f, returned |-> ExporterReturns(disk)] : f \in Remains(lines)}

\* The row writer.writerow is given for app (lines 93-101).
DemoRow(app) ==
    <<app["application_name"], app["calls_per_minute"], app["average_response_time"],
      app["errors_per_minute"], app["error_percentage"], app["health_status"],
      app["timestamp"]>>

\* export_demo_csv (demo_metrics_data.py, lines 80-103): nothing is caught,
\* a failing disk ends the call with the exception.
ExportDemoCsv(data, disk) ==
    LET lines == IF data = <<>> THEN <<>>
                 ELSE <<DisplayNames>> \o [i \in 1 .. Len(data) |-> DemoRow(data[i])]
    IN  IF disk = "ok"
        THEN {[file |-> [exists |-> TRUE, lines |-> lines], returned |-> "None"]}
        ELSE {[file |-> f, returned |-> "raised"] : f \in Remains(lines) \cup {NoFile}}

\* headers (lines 421-424).
ExcelHeaders ==
    <<"Application Name", "Calls/Min", "Avg Response Time (ms)", "Errors/Min",
      "Error Rate (%)", "Health Status", "Timestamp">>

\* The cells of one data row (lines 435-447).
ExcelRow(row_data) ==
    <<row_data["application_name"], row_data["calls_per_minute"],
      row_data["average_response_time"], row_data["errors_per_minute"],
      row_data["error_percentage"], row_data["health_status"],
      row_data["timestamp"]>>

\* MetricsExporter.export_to_excel (lines 380-472): the sheet's rows, an
\* empty row and the footer, saved by wb.save, which writes the whole file
\* or fails.
ExportToExcel(data, disk) ==
    LET lines == <<ExcelHeaders>> \o [i \in 1 .. Len(data) |-> ExcelRow(data[i])]
                     \o <<<<>>, <<"Generated">>>>
    IN  IF disk = "ok"
        THEN {[file |-> [exists |-> TRUE, lines |-> lines],
               returned |-> ExporterReturns(disk)]}
        ELSE {[file |-> f, returned |-> ExporterReturns(disk)] :
                 f \in {NoFile, [exists |-> TRUE, lines |-> <<>>]}}

\* The longest list of samples given to an exporter.
MaxRows == 2

\* Samples as main collects them: one as first built, a healthy one, a
\* critical one.
ExportSamples ==
    {FreshMetrics(1, "app1"),
     [FreshMetrics(2, "app2") EXCEPT !.calls_per_minute = 5000,
                                     !.average_response_time = 10000,
                                     !.health_status = "Healthy"],
     [FreshMetrics(3, "app3") EXCEPT !.calls_per_minute = 4530,
                                     !.average_response_time = 12050,
                                     !.errors_per_minute = 820,
                                     !.error_percentage = 1810,
                                     !.health_status = "Critical"]}

\* The lists of samples export_to_csv is given.
SampleLists == UNION {[1 .. n -> ExportSamples] : n \in 0 .. MaxRows}

\* The lists export_demo_csv is given: the demo records, from any first to
\* any last one.
DemoLists ==
    {SubSeq(GenerateDemoMetrics, a, b) :
        a \in 1 .. Len(GenerateDemoMetrics), b \in 1 .. Len(GenerateDemoMetrics)}
    \ {<<>>}

ExportIdle ==
    /\ e_writer = "none"
    /\ e_data = <<>>
    /\ e_pc = "idle"
    /\ e_file = NoFile
    /\ e_returned = "unset"

ExportInit ==
    /\ e_writer \in {"export_to_csv", "export_to_excel", "export_demo_csv"}
    /\ e_data \in IF e_writer = "export_demo_csv" THEN DemoLists ELSE SampleLists
    /\ e_pc = "ready"
    /\ e_file = NoFile
    /\ e_returned = "unset"

\* One call of MetricsExporter.export_to_csv.
CallExportToCsv ==
    /\ e_pc = "ready"
    /\ e_writer = "export_to_csv"
    /\ \E disk \in {"ok", "error"} : \E out \in ExportToCsv(e_data, disk) :
          /\ e_file' = out.file
          /\ e_returned' = out.returned
    /\ e_pc' = "done"
    /\ UNCHANGED <<e_writer, e_data>>
    /\ UNCHANGED <<healthVars, authVars, cliVars, traceVars, attemptVars, metricVars, mainVars, collectVars, userVars, fleetVars,
                   choiceVars>>

\* One call of MetricsExporter.export_to_excel.
CallExportToExcel ==
    /\ e_pc = "ready"
    /\ e_writer = "export_to_excel"
    /\ \E disk \in {"ok", "error"} : \E out \in ExportToExcel(e_data, disk) :
          /\ e_file' = out.file
          /\ e_returned' = out.returned
    /\ e_pc' = "done"
    /\ UNCHANGED <<e_writer, e_data>>
    /\ UNCHANGED <<healthVars, authVars, cliVars, traceVars, attemptVars, choiceVars, fleetVars, metricVars, mainVars, collectVars, userVars>>

\* One call of export_demo_csv.
CallExportDemoCsv ==
    /\ e_pc = "ready"
    /\ e_writer = "export_demo_csv"
    /\ \E disk \in {"ok", "error"} : \E out \in ExportDemoCsv(e_data, disk) :
          /\ e_file' = out.file
          /\ e_returned' = out.returned
    /\ e_pc' = "done"
    /\ UNCHANGED <<e_writer, e_data>>
    /\ UNCHANGED <<healthVars, authVars, cliVars, traceVars, attemptVars, metricVars, mainVars, collectVars, userVars, fleetVars,
                   choiceVars>>

-----------------------------------------------------------------------------
(* The end of main: the export of the collected samples.                   *)

\* Faulty variant: the result of the exporter is not looked at.
ExportSucceededAlways(success) == TRUE

\* if success: (line 720).
ExportSucceeded(success) == success = "True"

AttemptIdle ==
    /\ export_calls = <<>>
    /\ printed = <<>>

\* Lines 708-727: the format and filename prompts (either may raise and is
\* then caught at lines 729-734), then the one call of the exporter of the
\* chosen format, whose result decides the message and the return code.
\* The file the exporter leaves is followed in CallExportToCsv and
\* CallExportToExcel.
Export ==
    /\ main_pc = "export"
    /\ \E prompt \in {"csv", "excel", "interrupt", "raises"} :
          IF prompt \in {"interrupt", "raises"}
          THEN /\ printed' = Append(printed, IF prompt = "interrupt"
                                             THEN "Operation cancelled by user."
                                             ELSE "Unexpected error")
               /\ MainReturn(1)
               /\ UNCHANGED <<performed, export_calls, exportVars>>
          ELSE \E disk \in {"ok", "error"} :
                  /\ UNCHANGED exportVars
                  /\ export_calls' = Append(export_calls,
                                            [format |-> prompt, disk |-> disk,
                                             returned |-> ExporterReturns(disk)])
                  /\ performed' = performed \cup {"export"}
                  /\ IF ExportSucceeded(ExporterReturns(disk))
                     THEN /\ printed' = Append(printed, "Export completed successfully!")
                          /\ MainReturn(0)
                     ELSE /\ printed' = Append(printed, "Export failed.")
                          /\ MainReturn(1)
    /\ UNCHANGED <<configured, token_data, authorization, authenticated,
                   controller_apps, applications>>
    /\ UNCHANGED <<healthVars, authVars, cliVars, traceVars, choiceVars, fleetVars, metricVars, collectVars, userVars>>

-----------------------------------------------------------------------------
(* The script's entry (lines 737-758) and get_time_range (lines 475-515):  *)
(* the command-line overrides of the prompts, and main's call at line 696. *)

\* args.hours when --hours is not given (None).
NoHours == -1

\* The values of args.hours followed: not given, 0, an hour, a day.
ArgsHours == {NoHours, 0, 1, 24}

\* The depth of nested calls at which the interpreter raises RecursionError.
RecursionLimit == 100

\* The number of answers to the prompts followed.
MaxPrompts == 2

\* if args.hours: (line 751).
HoursGiven(hours) == hours # NoHours /\ hours # 0

CliIdle ==
    /\ cli_pc = "idle"
    /\ args_hours = NoHours
    /\ get_time_range = "function"
    /\ cli_depth = 0
    /\ cli_hours = NoHours
    /\ prompts = 0
    /\ time_range = NoHours
    /\ cli_rc = -1

\* The module is loaded: get_time_range names the function of line 475.
CliInit ==
    /\ cli_pc = "parse"
    /\ args_hours \in ArgsHours
    /\ get_time_range = "function"
    /\ cli_depth = 0
    /\ cli_hours = NoHours
    /\ prompts = 0
    /\ time_range = NoHours
    /\ cli_rc = -1

\* Lines 739-758: the arguments are parsed; with a truthy args.hours the
\* global name get_time_range is bound to the lambda of line 752; main is
\* called.
ParseArgs ==
    /\ cli_pc = "parse"
    /\ get_time_range' = IF HoursGiven(args_hours) THEN "lambda" ELSE "function"
    /\ cli_pc' = "main"
    /\ UNCHANGED <<args_hours, cli_depth, cli_hours, prompts, time_range, cli_rc>>
    /\ UNCHANGED <<healthVars, authVars, traceVars, attemptVars, exportVars, choiceVars, fleetVars, metricVars, mainVars, collectVars, userVars>>

\* main up to line 696: it returns 1 before the time range is asked for
\* (lines 665-693), or calls get_time_range() without an argument.
MainCallsGetTimeRange ==
    /\ cli_pc = "main"
    /\ \/ cli_pc' = "exited" /\ cli_rc' = 1 /\ UNCHANGED <<cli_depth, cli_hours>>
       \/ cli_pc' = "call" /\ cli_depth' = 1 /\ cli_hours' = NoHours /\ UNCHANGED cli_rc
    /\ UNCHANGED <<args_hours, get_time_range, prompts, time_range>>
    /\ UNCHANGED <<healthVars, authVars, traceVars, attemptVars, exportVars, choiceVars, fleetVars, metricVars, mainVars, collectVars, userVars>>

\* The body of the lambda of line 752: get_time_range(args.hours), the name
\* looked up in the module's globals when the call is made. A call beyond
\* the recursion limit raises RecursionError, which main catches at lines
\* 732-734 and answers with 1.
CallLambda ==
    /\ cli_pc = "call"
    /\ get_time_range = "lambda"
    /\ IF cli_depth + 1 > RecursionLimit
       THEN /\ cli_pc' = "exited"
            /\ cli_rc' = 1
            /\ UNCHANGED <<cli_depth, cli_hours>>
       ELSE /\ cli_depth' = cli_depth + 1
            /\ cli_hours' = args_hours
            /\ UNCHANGED <<cli_pc, cli_rc>>
    /\ UNCHANGED <<args_hours, get_time_range, prompts, time_range>>
    /\ UNCHANGED <<healthVars, authVars, traceVars, attemptVars, exportVars, choiceVars, fleetVars, metricVars, mainVars, collectVars, userVars>>

\* The function of line 475 is entered (line 485): with hours None it
\* prompts, otherwise it goes on to line 511.
CallFunction ==
    /\ cli_pc = "call"
    /\ get_time_range = "function"
    /\ cli_pc' = IF cli_hours = NoHours THEN "prompt" ELSE "compute"
    /\ UNCHANGED <<args_hours, get_time_range, cli_depth, cli_hours, prompts,
                   time_range, cli_rc>>
    /\ UNCHANGED <<healthVars, authVars, traceVars, attemptVars, exportVars, choiceVars, fleetVars, metricVars, mainVars, collectVars, userVars>>

\* One round of the loop of lines 491-509: the choice typed, and for '3'
\* the number typed; input() may also raise (end of input, an interrupt),
\* which main answers with 1.
Prompt ==
    /\ cli_pc = "prompt"
    /\ prompts < MaxPrompts
    /\ prompts' = prompts + 1
    /\ \E choice \in {"1", "2", "3", "x", "raise"} : \E typed \in {-1, 0, 5} :
          IF choice = "raise"
          THEN cli_pc' = "exited" /\ cli_rc' = 1 /\ UNCHANGED cli_hours
          ELSE IF choice = "1"
          THEN cli_hours' = 1 /\ cli_pc' = "compute" /\ UNCHANGED cli_rc
          ELSE IF choice = "2"
          THEN cli_hours' = 24 /\ cli_pc' = "compute" /\ UNCHANGED cli_rc
          ELSE IF choice = "3" /\ typed > 0
          THEN cli_hours' = typed /\ cli_pc' = "compute" /\ UNCHANGED cli_rc
          ELSE UNCHANGED <<cli_pc, cli_hours, cli_rc>>
    /\ UNCHANGED <<args_hours, get_time_range, cli_depth, time_range>>
    /\ UNCHANGED <<healthVars, authVars, traceVars, attemptVars, exportVars, choiceVars, fleetVars, metricVars, mainVars, collectVars, userVars>>

\* Lines 511-515: the range from hours before now to now is returned to
\* main, which goes on to collect.
ComputeRange ==
    /\ cli_pc = "compute"
    /\ time_range' = cli_hours
    /\ cli_pc' = "collect"
    /\ UNCHANGED <<args_hours, get_time_range, cli_depth, cli_hours, prompts, cli_rc>>
    /\ UNCHANGED <<healthVars, authVars, traceVars, attemptVars, exportVars, choiceVars, fleetVars, metricVars, mainVars, collectVars, userVars>>

-----------------------------------------------------------------------------
(* AppDynamicsAPI clients sharing the module's token_data: each client has *)
(* its own requests session, whose headers authenticate updates.           *)

\* The clients constructed.
Clients == {1, 2, 3}

\* The number of tokens the controller issues here.
MaxTokens == 3

\* No call of authenticate has returned since the last change.
NoReturn == [client |-> 0, result |-> "unset"]

AuthIdle ==
    /\ sessions = [c \in Clients |-> "None"]
    /\ issued = 0
    /\ returned = NoReturn

\* The clients as __init__ leaves them (lines 104-118): no Authorization
\* header; token_data as the module defines it (lines 66-70).
AuthInit ==
    /\ sessions = [c \in Clients |-> "None"]
    /\ issued = 0
    /\ returned = NoReturn

\* AppDynamicsAPI.authenticate (lines 120-174) on client c, under the
\* lock: True at once when the cached token is valid; otherwise the token
\* request, answered by 200 with a token, 200 with a body that raises when
\* read, another status, or an exception.
ClientAuthenticate(c) ==
    /\ IF IsTokenValid
       THEN /\ returned' = [client |-> c, result |-> "True"]
            /\ UNCHANGED <<token_data, sessions, issued>>
       ELSE \E answer \in {"token", "unreadable", "status", "raise"} :
               IF answer = "token"
               THEN /\ issued < MaxTokens
                    /\ issued' = issued + 1
                    /\ token_data' = [access_token |-> "token" \o ToString(issued'),
                                      valid |-> TRUE]
                    /\ sessions' = [sessions EXCEPT
                                       ![c] = "Bearer " \o token_data'.access_token]
                    /\ returned' = [client |-> c, result |-> "True"]
               ELSE /\ returned' = [client |-> c, result |-> "False"]
                    /\ UNCHANGED <<token_data, sessions, issued>>
    /\ UNCHANGED <<main_pc, main_rc, configured, authorization, authenticated,
                   controller_apps, applications, performed>>
    /\ UNCHANGED <<healthVars, cliVars, traceVars, attemptVars, exportVars, choiceVars, fleetVars, metricVars, collectVars, userVars>>

\* Time passes expires_at (line 180): the cached token is no longer valid.
TokenExpires ==
    /\ token_data.valid
    /\ token_data' = [token_data EXCEPT !.valid = FALSE]
    /\ returned' = NoReturn
    /\ UNCHANGED <<sessions, issued>>
    /\ UNCHANGED <<main_pc, main_rc, configured, authorization, authenticated,
                   controller_apps, applications, performed>>
    /\ UNCHANGED <<healthVars, cliVars, traceVars, attemptVars, exportVars, choiceVars, fleetVars, metricVars, collectVars, userVars>>

-----------------------------------------------------------------------------
InitHealth == HealthInit /\ MetricsIdle /\ MainIdle /\ CollectIdle /\ UserIdle /\ FleetIdle /\ ChoiceIdle /\ ExportIdle /\ AttemptIdle /\ TraceIdle /\ CliIdle /\ AuthIdle
NextHealth == Classify
SpecHealth == InitHealth /\ [][NextHealth]_vars

InitMetrics == HealthIdle /\ MetricsInit /\ MainIdle /\ CollectIdle /\ UserIdle /\ FleetIdle /\ ChoiceIdle /\ ExportIdle /\ AttemptIdle /\ TraceIdle /\ CliIdle /\ AuthIdle
NextMetrics == ConvertTimes \/ QueryNextPath \/ DeriveAndClassify
SpecMetrics == InitMetrics /\ [][NextMetrics]_vars

InitMain == HealthIdle /\ MetricsIdle /\ MainInit /\ CollectIdle /\ UserIdle /\ FleetIdle /\ ChoiceIdle /\ ExportIdle /\ AttemptIdle /\ TraceIdle /\ CliIdle /\ AuthIdle
Worker(i) == FetchMetrics(i) \/ AcquireLock(i) \/ AppendSample(i) \/ CountFailure(i)
NextMain ==
    \/ ValidateConfiguration
    \/ Authenticate
    \/ GetApplications
    \/ GetTimeRange
    \/ StartThread
    \/ EndOfApplications
    \/ JoinThread
    \/ CollectReturn
    \/ DisplaySummary
    \/ Export
    \/ \E i \in AppIds : Worker(i)
SpecMain == InitMain /\ [][NextMain]_vars

\* The collector as its scheduling sees it: main up to the return of
\* collect_metrics_threaded, every thread's collect_app_metrics taken as a
\* whole. A started thread runs to its end, and the main thread's loop and
\* joins go on whenever they can.
NextCollect ==
    \/ ValidateConfiguration
    \/ Authenticate
    \/ GetApplications
    \/ GetTimeRange
    \/ StartThread
    \/ EndOfApplications
    \/ JoinThread
    \/ CollectReturn
    \/ \E i \in AppIds : CollectAppMetrics(i)
CollectFairness ==
    /\ WF_vars(StartThread)
    /\ WF_vars(EndOfApplications)
    /\ WF_vars(JoinThread)
    /\ \A i \in AppIds : WF_vars(CollectAppMetrics(i))
\* The lists followed under this scheduling: the well-formed ones of every
\* length, and the ones with a malformed record that are shorter than a
\* batch.
FairAppLists ==
    {l \in AppLists :
        \/ \A i \in 1 .. Len(l) : l[i].keys = {"id", "name"}
        \/ Len(l) < THREAD_COUNT}
InitCollect == InitMain /\ controller_apps \in FairAppLists /\ AuthIdle
SpecCollectFair == InitCollect /\ [][NextCollect]_vars /\ CollectFairness

InitUser == HealthIdle /\ MetricsIdle /\ MainIdle /\ CollectIdle /\ UserInit /\ FleetIdle /\ ChoiceIdle /\ ExportIdle /\ AttemptIdle /\ TraceIdle /\ CliIdle /\ AuthIdle
NextUser ==
    \/ OnStart
    \/ StartJourney
    \/ StepHomepage
    \/ StepLogin
    \/ StepBrowseProducts
    \/ StepSearchProduct
    \/ StepViewProduct
    \/ StepAddToCart
    \/ StepViewCart
    \/ StepCheckout
    \/ StepViewOrders
    \/ StepContinueShopping
    \/ StepExit
    \/ WaitBetweenActions
    \/ OnStop
SpecUser == InitUser /\ [][NextUser]_vars

InitFleet ==
    /\ HealthIdle /\ MetricsIdle /\ MainIdle /\ CollectIdle /\ UserIdle
    /\ FleetInit /\ ChoiceIdle /\ ExportIdle /\ AttemptIdle /\ TraceIdle /\ CliIdle /\ AuthIdle
NextFleet ==
    \E u \in Users :
        \/ UserOnStart(u)
        \/ UserPageStep(u)
        \/ UserLogin(u)
        \/ UserViewProduct(u)
        \/ UserAddToCart(u)
        \/ UserCheckout(u)
        \/ UserOnStop(u)
SpecFleet == InitFleet /\ [][NextFleet]_vars

InitChoice ==
    /\ HealthIdle /\ MetricsIdle /\ MainIdle /\ CollectIdle /\ UserIdle
    /\ FleetIdle /\ ChoiceInit /\ ExportIdle /\ AttemptIdle /\ TraceIdle /\ CliIdle /\ AuthIdle
NextChoice == PickJourney \/ WalkJourney \/ EndJourney
SpecChoice == InitChoice /\ [][NextChoice]_vars

InitExport ==
    /\ HealthIdle /\ MetricsIdle /\ MainIdle /\ CollectIdle /\ UserIdle
    /\ FleetIdle /\ ChoiceIdle /\ ExportInit /\ AttemptIdle /\ TraceIdle /\ CliIdle /\ AuthIdle
NextExport == CallExportToCsv \/ CallExportToExcel \/ CallExportDemoCsv
SpecExport == InitExport /\ [][NextExport]_vars

InitCli ==
    /\ HealthIdle /\ MetricsIdle /\ MainIdle /\ CollectIdle /\ UserIdle
    /\ FleetIdle /\ ChoiceIdle /\ ExportIdle /\ AttemptIdle /\ TraceIdle /\ CliInit /\ AuthIdle
NextCli ==
    \/ ParseArgs
    \/ MainCallsGetTimeRange
    \/ CallLambda
    \/ CallFunction
    \/ Prompt
    \/ ComputeRange
SpecCli == InitCli /\ [][NextCli]_vars

InitAuth ==
    /\ HealthIdle /\ MetricsIdle /\ MainIdle /\ CollectIdle /\ UserIdle
    /\ FleetIdle /\ ChoiceIdle /\ ExportIdle /\ AttemptIdle /\ TraceIdle /\ CliIdle /\ AuthInit
NextAuth ==
    \/ \E c \in Clients : ClientAuthenticate(c)
    \/ TokenExpires
SpecAuth == InitAuth /\ [][NextAuth]_vars

-----------------------------------------------------------------------------
(* Claims.                                                                 *)

Abs(x) == IF x < 0 THEN -x ELSE x

\* C1: for every triple the classifier answers by the first matching rule:
\* error rate > 5 or response time > 5000 is Critical; else error rate > 1
\* or response time > 2000 is Warning; else calls > 0 is Healthy; else
\* No Traffic. The thresholds themselves do not raise the status, and the
\* spec's four examples classify as stated.
C1_FirstMatchingRule ==
    h_status # "unset" =>
        LET ep == h_metrics.error_percentage
            rt == h_metrics.average_response_time
            cpm == h_metrics.calls_per_minute
            critical == ep > 500 \/ rt > 500000
            warning == ~critical /\ (ep > 100 \/ rt > 200000)
            healthy == ~critical /\ ~warning /\ cpm > 0
        IN  /\ h_status \in {"Critical", "Warning", "Healthy", "No Traffic"}
            /\ (h_status = "Critical") <=> critical
            /\ (h_status = "Warning") <=> warning
            /\ (h_status = "Healthy") <=> healthy
            /\ (h_status = "No Traffic") <=> (~critical /\ ~warning /\ ~healthy)
            /\ (ep = 0 /\ rt = 0 /\ cpm = 0) => h_status = "No Traffic"
            /\ (ep = 200 /\ rt = 10000 /\ cpm = 5000) => h_status = "Warning"
            /\ (ep = 600 /\ rt = 10000 /\ cpm = 5000) => h_status = "Critical"
            /\ (ep = 0 /\ rt = 10000 /\ cpm = 5000) => h_status = "Healthy"
            /\ (ep \in {100, 500} /\ rt = 10000) => h_status # "Critical"
            /\ (ep = 100 /\ rt \in {10000, 200000} /\ cpm > 0) => h_status = "Healthy"
            /\ (ep = 0 /\ rt = 500000) => h_status = "Warning"

\* C1 witness: a triple sitting on both Warning thresholds is classified
\* Healthy.
C1_Witness ==
    /\ h_status = "Healthy"
    /\ h_metrics.error_percentage = 100
    /\ h_metrics.average_response_time = 200000

\* C2: a returned sample's error_percentage is errors / calls * 100 rounded
\* to two decimals (within half a hundredth of the exact quotient) when
\* calls_per_minute > 0, and 0 otherwise, whatever errors_per_minute is.
C2_ErrorPercentage ==
    Returned =>
        IF metrics_data.calls_per_minute > 0
        THEN 2 * Abs(metrics_data.error_percentage * metrics_data.calls_per_minute
                     - metrics_data.errors_per_minute * 10000)
                 <= metrics_data.calls_per_minute
        ELSE metrics_data.error_percentage = 0

\* C2 witness: 0.01 errors over 0.32 calls per minute is 3.125 percent,
\* returned as 3.12.
C2_Witness ==
    /\ m_pc = "returned"
    /\ metrics_data.calls_per_minute = 32
    /\ metrics_data.errors_per_minute = 1
    /\ metrics_data.error_percentage = 312

\* C3 as claimed: on every path, the caught exception included, the
\* returned sample's health_status is the classifier of its own triple.
C3_ClassifiedOnEveryPath ==
    Returned => metrics_data.health_status = DetermineHealthStatus(metrics_data)

\* C3 amended: a sample returned by the normal path carries the classifier
\* of its own triple; a sample returned through the outer except carries
\* the initial 'Unknown' and zero metrics.
C3_ClassifiedUnlessOuterError ==
    /\ m_pc = "returned" =>
           metrics_data.health_status = DetermineHealthStatus(metrics_data)
    /\ m_pc = "returned_after_error" =>
           /\ metrics_data.health_status = "Unknown"
           /\ metrics_data.calls_per_minute = 0
           /\ metrics_data.average_response_time = 0
           /\ metrics_data.errors_per_minute = 0
           /\ metrics_data.error_percentage = 0

\* C3 witness: a sample whose derived error rate alone makes it Critical.
C3_Witness ==
    /\ m_pc = "returned"
    /\ metrics_data.health_status = "Critical"
    /\ metrics_data.average_response_time <= 200000
    /\ metrics_data.error_percentage > 500

\* One query step as C4 states it.
C4_QueryStep ==
    m_pc \in {"path1", "path2", "path3"} =>
        LET p == MetricPaths[PathIndex]
            body == m_response'.body
        IN  /\ m_queried' = Append(m_queried, p)
            /\ m_pc' = NextPathPc
            /\ \A q \in {"Calls per Minute", "Average Response Time",
                         "Errors per Minute"} \ {p} :
                   metrics_data'[FieldOf(q)] = metrics_data[FieldOf(q)]
            /\ m_response'.kind # "ok" => metrics_data'[FieldOf(p)] = 0
            /\ (m_response'.kind = "ok" /\ Len(body) = 1 /\ body[1] # <<>>
                    /\ body[1][Len(body[1])].ok) =>
                   metrics_data'[FieldOf(p)] = body[1][Len(body[1])].v

\* C4: each of the three paths is queried whatever happened to the others;
\* a path whose request raises or answers non-200 leaves its metric 0 and
\* the other metrics as they were; a good answer's latest value is stored;
\* the sample is returned classified.
C4_PathsIndependent ==
    /\ [](m_pc \in {"derive", "returned"} => m_queried = MetricPaths)
    /\ [](m_pc = "returned" =>
            /\ \A p \in m_failed : metrics_data[FieldOf(p)] = 0
            /\ metrics_data.health_status = DetermineHealthStatus(metrics_data))
    /\ [][C4_QueryStep]_vars

\* C4 witness: the first path failed, the other two were stored, and the
\* sample came back classified.
C4_Witness ==
    /\ m_pc = "returned"
    /\ m_failed = {"Calls per Minute"}
    /\ metrics_data.calls_per_minute = 0
    /\ metrics_data.average_response_time = 200001
    /\ metrics_data.errors_per_minute = 300
    /\ metrics_data.health_status = "Warning"

\* C5: at every moment of collect_metrics_threaded at most THREAD_COUNT
\* workers have been started and have not yet ended.
C5_BoundedInFlight == Cardinality(InFlight) <= THREAD_COUNT

\* C5 witness: THREAD_COUNT fetches are running at once while a further
\* application waits for the batch to be joined.
C5_Witness ==
    /\ Cardinality({i \in AppIds : t_state[i] = "running"}) = THREAD_COUNT
    /\ c_pc = "join_batch"
    /\ c_next <= Len(applications)

\* C6 as claimed: the list collect_metrics_threaded returns holds exactly
\* one sample per input application.
C6_OneSamplePerApplication ==
    c_pc = "returned" =>
        /\ Len(metrics_list) = Len(applications)
        /\ \A i \in 1 .. Len(applications) :
               \E j \in 1 .. Len(metrics_list) :
                   metrics_list[j].application_id = applications[i].id

\* The step C7 allows to change the result list: an append of the lock
\* holder's own sample, before the function has returned.
C7_AppendStep ==
    metrics_list' # metrics_list =>
        /\ lock # 0
        /\ t_state[lock] = "appending"
        /\ metrics_list' = Append(metrics_list, t_sample[lock])
        /\ c_pc # "returned"
        /\ c_pc' # "returned"

\* C7: collect_metrics_threaded returns, and the summary and the export
\* begin, only after every started worker has ended; the result list is
\* changed only by an append made while the lock is held, never after the
\* return.
C7_JoinBeforeReturn ==
    /\ [](c_pc = "returned" => \A i \in AppIds : t_state[i] \in {"unstarted", "done", "dead"})
    /\ [](c_pc = "returned" => \A i \in 1 .. Len(applications) : t_state[i] # "unstarted")
    /\ []((main_pc \in {"summary", "export"} \/ performed \cap {"summary", "export"} # {})
              => /\ c_pc = "returned"
                 /\ InFlight = {})
    /\ [][C7_AppendStep]_vars

\* C7 witness: two batches were joined and the export has begun.
C7_Witness ==
    /\ main_pc = "export"
    /\ c_pc = "returned"
    /\ Len(metrics_list) > THREAD_COUNT

\* C8: when authenticate returns False main returns 1 and no application
\* listing, metric fetch, summary or export is performed in that run.
C8_NoCollectionWithoutAuthentication ==
    authenticated = "False" =>
        /\ main_pc = "exited"
        /\ main_rc = 1
        /\ performed \subseteq {"token_request"}
        /\ applications = <<>>
        /\ c_pc = "idle"
        /\ \A i \in AppIds : t_state[i] = "unstarted"
        /\ metrics_list = <<>>

\* C8 witness: the token request was made, authenticate returned False and
\* main has returned 1.
C8_Witness ==
    /\ authenticated = "False"
    /\ "token_request" \in performed
    /\ main_pc = "exited"
    /\ main_rc = 1
    /\ controller_apps # <<>>

Elements(seq) == {seq[k] : k \in 1 .. Len(seq)}

\* One add_to_cart step as C9 states it.
C9_AddToCartStep ==
    AtStep("add_to_cart") =>
        LET posts == {k \in 1 .. Len(step_calls') :
                         step_calls'[k].name = "Add to Cart"}
        IN  /\ last_step' = "add_to_cart"
            /\ session_data.viewed_products = <<>> =>
                   /\ Len(step_calls') >= 1
                   /\ step_calls'[1].method = "GET"
                   /\ step_calls'[1].name = "View Product"
                   /\ step_calls'[1].product_id \in ProductIds
            /\ \A k \in posts :
                   /\ k = Len(step_calls')
                   /\ step_calls'[k].method = "POST"
                   /\ session_data'.viewed_products # <<>>
                   /\ step_calls'[k].product_id \in Elements(session_data'.viewed_products)
            /\ session_data'.viewed_products = <<>> =>
                   /\ posts = {}
                   /\ session_data'.cart_items = session_data.cart_items

\* C9: add_to_cart never posts to the cart while viewed_products is empty:
\* with nothing viewed it first performs view_product, and when nothing is
\* viewed after that either, no cart POST is made.
C9_NoCartPostWithoutViewedProduct == [][C9_AddToCartStep]_vars

\* C9 witness: add_to_cart found nothing viewed, viewed a product and then
\* posted it to the cart.
C9_Witness ==
    /\ last_step = "add_to_cart"
    /\ Len(step_calls) = 2
    /\ step_calls[1].name = "View Product"
    /\ step_calls[2].name = "Add to Cart"
    /\ step_calls[2].product_id = step_calls[1].product_id

\* One checkout step with an empty cart as C10 states it.
C10_CheckoutStep ==
    (AtStep("checkout") /\ session_data.cart_items = <<>>) =>
        /\ last_step' = "checkout"
        /\ step_calls' = <<>>
        /\ ~step_raised'
        /\ Attr("checkout", "checkout.abandoned", "TRUE") \in step_attrs'
        /\ Attr("checkout", "checkout.reason", "empty_cart") \in step_attrs'
        /\ session_data' = session_data

\* C10: checkout with empty cart_items issues no HTTP call, marks the
\* checkout span abandoned with reason empty_cart and leaves the session
\* state as it was.
C10_EmptyCartCheckout == [][C10_CheckoutStep]_vars

\* C10 witness: a checkout step ended abandoned, without a call, in a
\* session that had viewed a product.
C10_Witness ==
    /\ last_step = "checkout"
    /\ step_calls = <<>>
    /\ Attr("checkout", "checkout.reason", "empty_cart") \in step_attrs
    /\ session_data.cart_items = <<>>
    /\ session_data.viewed_products # <<>>

\* A sequence is a prefix of another.
IsPrefix(short, long) ==
    /\ Len(short) <= Len(long)
    /\ \A k \in 1 .. Len(short) : short[k] = long[k]

\* What holds once a step of the journey has raised.
C11_AfterRaise ==
    journey_span.status = "ERROR" =>
        /\ step_raised
        /\ journey_span.exceptions = 1
        /\ u_pc \in {"waiting", "stopped"}
        /\ executed # <<>>
        /\ last_step = executed[Len(executed)]
        /\ IsPrefix(executed, journey)
        /\ u_pc = "waiting" => ENABLED StartJourney

\* The step in which execute_step raises, and the steps after it.
C11_RaisingStep ==
    /\ (u_pc = "journey" /\ step_raised' /\ executed' # executed) =>
           /\ journey_span' = [exceptions |-> 1, status |-> "ERROR"]
           /\ u_pc' = "waiting"
           /\ executed' = Append(executed, journey[step_idx])
    /\ journey_span.status = "ERROR" =>
           \/ executed' = executed /\ session_data' = session_data
           \/ /\ executed' = <<>>
              /\ u_pc' = "journey"
              /\ journey_span' = NewSpan
              /\ session_data' = session_data

\* C11: when execute_step raises, no later step of the journey is executed,
\* the exception is recorded on the journey span, whose status becomes
\* ERROR, execute_user_journey returns without raising, and the session
\* keeps its state and can start its next journey.
C11_StepFailureEndsJourneyOnly == [] C11_AfterRaise /\ [][C11_RaisingStep]_vars

\* C11 witness: a journey was ended by a raising step before its last step.
C11_Witness ==
    /\ u_pc = "waiting"
    /\ step_raised
    /\ journey_span.status = "ERROR"
    /\ Len(executed) >= 2
    /\ Len(executed) < Len(journey)

\* The step names execute_step dispatches on.
StepNames ==
    {"homepage", "login", "browse_products", "search_product", "view_product",
     "add_to_cart", "view_cart", "checkout", "view_orders", "continue_shopping",
     "exit"}

\* The transition is one execution of execute_step.
StepExecuted == u_pc = "journey" /\ executed' # executed

\* C12 as claimed: one execution of execute_step performs exactly one HTTP
\* call, whatever the step and the session state.
C12_OneCallStep == StepExecuted => Len(step_calls') = 1

C12_ExactlyOneCall == [][C12_OneCallStep]_vars

\* The number of HTTP calls of one execution of execute_step.
C12_CallsOfStep ==
    StepExecuted =>
        LET step == journey[step_idx]
            n == Len(step_calls')
        IN  /\ step \in StepNames
            /\ step \in {"homepage", "browse_products", "search_product",
                         "view_product", "view_cart", "view_orders",
                         "continue_shopping"} => n = 1
            /\ step = "exit" => n = 0
            /\ step = "checkout" =>
                   n = IF session_data.cart_items = <<>> THEN 0 ELSE 1
            /\ step = "add_to_cart" =>
                   IF session_data.viewed_products # <<>> THEN n = 1
                   ELSE /\ n \in {1, 2}
                        /\ n = 2 <=> step_calls'[1].status = 200
            /\ step = "login" =>
                   /\ n \in {1, 2, 3}
                   /\ n = 1 <=> step_calls'[1].status # 401
                   /\ n = 2 <=> (step_calls'[1].status = 401 /\ step_raised'
                                    /\ step_calls'[n].name = "User Registration")

\* C12 (amended): one execution of execute_step performs exactly one HTTP
\* call for homepage, browse_products, search_product, view_product,
\* view_cart, view_orders and continue_shopping, for checkout with a
\* non-empty cart, for add_to_cart with a viewed product and for a login
\* not answered 401; it performs none for exit and for checkout with an
\* empty cart, two for add_to_cart that first views a product with success,
\* and up to three (login, registration, login) for a login answered 401.
C12_CallsPerStep == [][C12_CallsOfStep]_vars

\* C12 witness: a login step issued three calls.
C12_Witness ==
    /\ last_step = "login"
    /\ Len(step_calls) = 3
    /\ ~step_raised

\* One login step as C13 states it.
C13_LoginStep ==
    (StepExecuted /\ journey[step_idx] = "login") =>
        LET calls == step_calls'
            n == Len(calls)
            names == [k \in 1 .. n |-> calls[k].name]
        IN  /\ \A k \in 1 .. n : calls[k].method = "POST"
            /\ names \in {<<"Login Attempt">>,
                          <<"Login Attempt", "User Registration">>,
                          <<"Login Attempt", "User Registration",
                            "Login After Registration">>}
            /\ n > 1 <=> calls[1].status = 401
            /\ n = 2 => (calls[2].status = 0 /\ step_raised')
            /\ session_data'.auth_token # session_data.auth_token =>
                   /\ ~step_raised'
                   /\ n \in {1, 3}
                   /\ calls[n].status = 200
            /\ (n = 2 \/ calls[n].status # 200) => session_data' = session_data
            /\ Attr("login_user", "login.success", "TRUE") \in step_attrs' <=>
                   /\ n \in {1, 3}
                   /\ calls[n].status = 200
                   /\ session_data'.auth_token \in {"token1", "None"}
                   /\ Attr("login_user", "login.success", "FALSE") \notin step_attrs'
            /\ session_data'.cart_items = session_data.cart_items
            /\ session_data'.viewed_products = session_data.viewed_products

\* C13: the login step posts the credentials first; only when the answer
\* is 401 it registers and then posts the login once more (login,
\* registration, login; at most two login posts and one registration);
\* auth_token changes only when the last login response is 200 and is left
\* as it was otherwise.
C13_LoginRegisterLogin == [][C13_LoginStep]_vars

\* C13 witness: a login answered 401 was followed by a registration and a
\* second login answered 200, whose token was stored.
C13_Witness ==
    /\ last_step = "login"
    /\ Len(step_calls) = 3
    /\ step_calls[1].status = 401
    /\ step_calls[3].status = 200
    /\ session_data.auth_token = "token1"

\* One checkout step with a non-empty cart as C14 states it.
C14_CheckoutStep ==
    (StepExecuted /\ journey[step_idx] = "checkout" /\ session_data.cart_items # <<>>) =>
        /\ Len(step_calls') = 1
        /\ step_calls'[1].method = "POST"
        /\ step_calls'[1].name = "Checkout"
        /\ session_data'.cart_items =
               IF step_calls'[1].status \in {200, 201} THEN <<>>
               ELSE session_data.cart_items
        /\ session_data'.viewed_products = session_data.viewed_products
        /\ session_data'.auth_token = session_data.auth_token
        /\ step_raised' <=> step_calls'[1].status = 0

\* C14: checkout with a non-empty cart issues exactly one checkout POST;
\* a 200 or 201 empties cart_items, every other status (and a raising
\* request) leaves cart_items as it was; viewed_products and auth_token
\* are unchanged in both cases.
C14_CheckoutClearsCartOnSuccess == [][C14_CheckoutStep]_vars

\* C14 witness: a checkout answered 201 emptied the cart.
C14_Witness ==
    /\ last_step = "checkout"
    /\ Len(step_calls) = 1
    /\ step_calls[1].status = 201
    /\ session_data.cart_items = <<>>
    /\ session_data.viewed_products # <<>>

\* One add_to_cart step as C15 states it.
C15_CartStep ==
    (StepExecuted /\ journey[step_idx] = "add_to_cart") =>
        LET posts == {k \in 1 .. Len(step_calls') :
                         step_calls'[k].name = "Add to Cart"}
        IN  /\ Cardinality(posts) <= 1
            /\ \A k \in posts :
                   LET post == step_calls'[k]
                   IN  /\ post.product_id \in Elements(session_data'.viewed_products)
                       /\ post.product_id \in 1 .. 100
                       /\ post.quantity \in 1 .. 3
                       /\ session_data'.cart_items =
                              IF post.status \in {200, 201}
                              THEN Append(session_data.cart_items,
                                          [productId |-> post.product_id,
                                           quantity |-> post.quantity])
                              ELSE session_data.cart_items
            /\ posts = {} => session_data'.cart_items = session_data.cart_items
            /\ session_data'.auth_token = session_data.auth_token

C16_ViewStep ==
    (StepExecuted /\ journey[step_idx] = "view_product") =>
        /\ Len(step_calls') = 1
        /\ step_calls'[1].method = "GET"
        /\ step_calls'[1].name = "View Product"
        /\ step_calls'[1].product_id \in 1 .. 100
        /\ session_data'.viewed_products =
               IF step_calls'[1].status = 200
               THEN Append(session_data.viewed_products, step_calls'[1].product_id)
               ELSE session_data.viewed_products
        /\ session_data'.cart_items = session_data.cart_items
        /\ session_data'.auth_token = session_data.auth_token

\* C16: view_product issues one GET for a product id in 1..100; a 200
\* appends that id to the end of viewed_products, every other status leaves
\* viewed_products as it was; cart_items and auth_token are not changed.
C16_ViewedProductAppended == [][C16_ViewStep]_vars

\* C16 witness: a second product was viewed with success and is the last of
\* viewed_products.
C16_Witness ==
    /\ last_step = "view_product"
    /\ Len(step_calls) = 1
    /\ step_calls[1].status = 200
    /\ Len(session_data.viewed_products) = 2
    /\ session_data.viewed_products[2] = step_calls[1].product_id
    /\ session_data.viewed_products[1] # session_data.viewed_products[2]

\* One step of those that only look at a page, or exit, as C17 states it.
C17_PageStep ==
    LET step == journey[step_idx]
        step_completed == {Attr("step_" \o step, "step.completed", "TRUE")}
    IN  StepExecuted =>
            /\ step \in {"homepage", "browse_products", "search_product", "view_cart",
                         "view_orders", "continue_shopping", "exit"} =>
                   session_data' = session_data
            /\ step = "exit" =>
                   /\ step_calls' = <<>>
                   /\ ~step_raised'
                   /\ step_attrs' = step_completed
            /\ step \in {"continue_shopping", "browse_products"} =>
                   \E category \in {"all", "electronics"} :
                   \E answer \in HttpAnswers(PageCodes) :
                       LET browsed == BrowseProducts(session_data, category, answer)
                       IN  /\ step_calls' = browsed.calls
                           /\ step_raised' = browsed.raised
                           /\ step_attrs' \ step_completed = browsed.attrs
                           /\ step_calls'[1].method = "GET"

\* C17: homepage, browse_products, search_product, view_cart, view_orders,
\* continue_shopping and exit leave cart_items, viewed_products and
\* auth_token as they were for every HTTP outcome; exit makes no HTTP call;
\* continue_shopping does what browse_products does.
C17_PageStepsKeepSession == [][C17_PageStep]_vars

\* C17 witness: continue_shopping browsed the catalogue, was answered 500,
\* and the cart filled before it is still there.
C17_Witness ==
    /\ last_step = "continue_shopping"
    /\ Len(step_calls) = 1
    /\ step_calls[1].name = "Browse All Products"
    /\ step_calls[1].status = 500
    /\ session_data.cart_items # <<>>
    /\ session_data.viewed_products # <<>>

\* Where the journey stands, in terms of the steps executed.
C18_Position ==
    /\ IsPrefix(executed, journey)
    /\ u_pc = "journey" => Len(executed) = step_idx - 1 /\ step_idx <= Len(journey)
    /\ u_pc = "think" => Len(executed) = step_idx /\ ~step_raised
    /\ (u_pc \in {"waiting", "stopped"} /\ journey # <<>>) =>
           \/ executed = journey
           \/ step_raised /\ journey_span.status = "ERROR"

\* How the journey moves: a step is the pattern's next one and is followed
\* by the think time or the end of the journey; the following step is
\* reached from the think time only.
C18_Move ==
    /\ StepExecuted =>
           /\ executed' = Append(executed, journey[step_idx])
           /\ last_step' = journey[step_idx]
           /\ journey' = journey
           /\ u_pc' = IF step_raised' THEN "waiting" ELSE "think"
    /\ executed' # executed => (StepExecuted \/ (u_pc = "waiting" /\ executed' = <<>>))
    /\ (u_pc' = "journey" /\ executed' # <<>>) =>
           /\ u_pc = "think"
           /\ executed' = executed
           /\ step_idx' = step_idx + 1
    /\ (u_pc = "think" /\ u_pc' # "think") =>
           /\ executed' = executed
           /\ session_data' = session_data
           /\ u_pc' = IF executed = journey THEN "waiting" ELSE "journey"

\* C18: the steps of a journey are executed one after the other in the
\* order of the chosen pattern: the steps executed are a prefix of the
\* pattern, a step starts only after the step before it and its think time
\* have ended, and the prefix is the whole pattern unless a step raised.
C18_StepsInPatternOrder == [] C18_Position /\ [][C18_Move]_vars

\* C18 witness: the eleven steps of comparison_shopper were executed in
\* order and none raised.
C18_Witness ==
    /\ u_pc = "waiting"
    /\ executed = JOURNEY_PATTERNS.comparison_shopper.steps
    /\ journey_span.status = "UNSET"

\* Each started user holds a dictionary of its own.
C19_OwnDictionary ==
    \A u \in Users :
        /\ fleet_pc[u] = "created" <=> session_ref[u] = 0
        /\ fleet_pc[u] # "created" =>
               /\ session_ref[u] \in 1 .. Len(heap)
               /\ \A v \in Users \ {u} : session_ref[v] # session_ref[u]

\* A move of one user leaves the other users' session state alone, and a
\* user's session state first exists, empty, through its own on_start.
C19_OwnMove ==
    \A v \in Users :
        /\ v # actor' =>
               /\ session_ref'[v] = session_ref[v]
               /\ fleet_pc'[v] = fleet_pc[v]
               /\ session_ref[v] # 0 => heap'[session_ref[v]] = heap[session_ref[v]]
        /\ session_ref'[v] # session_ref[v] =>
               /\ fleet_pc[v] = "created"
               /\ fleet_pc'[v] = "running"
               /\ heap'[session_ref'[v]] = NewSession

\* C19: with several users running at once, each user's session state is
\* created at that user's session start and changed only by that user's
\* own steps; no step of one user changes the session state of another,
\* whatever the interleaving.
C19_SessionsNotShared == [] C19_OwnDictionary /\ [][C19_OwnMove]_vars

\* C19 witness: user 2 started before user 1; user 1 then filled its cart
\* and user 2, moving last, logged in: each session holds only its own
\* user's changes.
C19_Witness ==
    /\ session_ref = [u \in Users |-> IF u = 2 THEN 1 ELSE 2]
    /\ fleet_pc = [u \in Users |-> "running"]
    /\ actor = 2
    /\ heap[session_ref[1]].cart_items # <<>>
    /\ heap[session_ref[1]].auth_token = "None"
    /\ heap[session_ref[2]].cart_items = <<>>
    /\ heap[session_ref[2]].viewed_products = <<>>
    /\ heap[session_ref[2]].auth_token = "token1"

\* The names of the five patterns.
C20_Names ==
    {"browser", "quick_shopper", "comparison_shopper", "returning_user",
     "cart_abandoner"}

\* The number of draws, out of total, for which random.choices picks name.
C20_Share(table, name) ==
    Cardinality({x \in 0 .. (TotalWeight(table) - 1) :
                    RandomChoices(PatternNames, WeightsOf(table), x) = name})

\* What get_random_journey returns, and from which table.
C20_Pick ==
    /\ DOMAIN patterns = C20_Names
    /\ \A name \in C20_Names : patterns[name].steps = JOURNEY_PATTERNS[name].steps
    /\ pick_pc \in {"ready", "picked", "ValueError"}
    /\ pick_pc = "picked" =>
           /\ chosen_pattern \in C20_Names
           /\ chosen_pattern \in ChosenPatterns(patterns)
           /\ patterns[chosen_pattern].weight > 0
           /\ picked = JOURNEY_PATTERNS[chosen_pattern].steps
           /\ TotalWeight(patterns) > 0
    /\ patterns = JOURNEY_PATTERNS =>
           /\ WeightsOf(patterns) = <<40, 25, 20, 10, 5>>
           /\ TotalWeight(patterns) = 100
           /\ ChosenPatterns(patterns) = C20_Names
           /\ pick_pc # "ValueError"
    /\ TotalWeight(patterns) # 100 =>
           IF TotalWeight(patterns) = 0
           THEN pick_pc # "picked"
           ELSE pick_pc # "ValueError"
    /\ TotalWeight(patterns) > 0 =>
           \A name \in C20_Names :
               /\ C20_Share(patterns, name) = patterns[name].weight
               /\ name \in ChosenPatterns(patterns) <=> patterns[name].weight > 0

C21_Columns ==
    <<<<"Application Name", "application_name">>,
      <<"Calls/Min", "calls_per_minute">>,
      <<"Avg Response Time (ms)", "average_response_time">>,
      <<"Errors/Min", "errors_per_minute">>,
      <<"Error Rate (%)", "error_percentage">>,
      <<"Health Status", "health_status">>,
      <<"Timestamp", "timestamp">>>>

\* C21: a CSV export that succeeded left a file whose first line is the
\* header Application Name, Calls/Min, Avg Response Time (ms), Errors/Min,
\* Error Rate (%), Health Status, Timestamp in that order, followed by one
\* row per sample in the order of the input, each column holding the
\* sample's field of that column; application_id has no column.
C21_CsvHeaderThenRows ==
    (/\ e_pc = "done"
     /\ e_writer \in {"export_to_csv", "export_demo_csv"}
     /\ e_returned \in {"True", "None"}) =>
        /\ e_file.exists
        /\ Len(e_file.lines) = Len(e_data) + 1
        /\ e_file.lines[1] = [k \in 1 .. Len(C21_Columns) |-> C21_Columns[k][1]]
        /\ \A i \in 1 .. Len(e_data) :
              /\ Len(e_file.lines[i + 1]) = Len(C21_Columns)
              /\ \A k \in 1 .. Len(C21_Columns) :
                    e_file.lines[i + 1][k] = e_data[i][C21_Columns[k][2]]

\* C21 witness: export_to_csv has written two different samples.
C21_TwoRowsWritten ==
    /\ e_pc = "done"
    /\ e_writer = "export_to_csv"
    /\ e_returned = "True"
    /\ Len(e_data) = 2
    /\ e_data[1] # e_data[2]
    /\ Len(e_file.lines) = 3

\* C22: an export, CSV or Excel, that fails on the disk or the format makes
\* the exporter return False; main then returns non-zero, does not report
\* success, and has called an exporter once only: no retry and no export in
\* the other format.
C22_FailedExportReturnsNonZero ==
    /\ Len(export_calls) <= 1
    /\ \A i \in 1 .. Len(export_calls) :
          /\ export_calls[i].disk = "error" => export_calls[i].returned = "False"
          /\ export_calls[i].returned = "False" =>
                /\ main_pc = "exited"
                /\ main_rc # 0
                /\ \A j \in 1 .. Len(printed) :
                      printed[j] # "Export completed successfully!"

\* C22 witness: main has returned after an Excel export that failed.
C22_ExcelExportFailed ==
    /\ main_pc = "exited"
    /\ main_rc = 1
    /\ Len(export_calls) = 1
    /\ export_calls[1].format = "excel"
    /\ export_calls[1].disk = "error"
    /\ printed = <<"Export failed.">>

\* The span attributes that are an HTTP status.
C23_Statuses(attrs) == {a \in attrs : a[2] = "http.response.status_code"}

\* C23 as claimed: the tracing of every executed step that did not raise
\* carries an HTTP status.
C23_StatusStep == (StepExecuted /\ ~step_raised') => C23_Statuses(step_attrs') # {}

C23_EveryStepCarriesStatus == [][C23_StatusStep]_vars

C23_SpanStep ==
    StepExecuted =>
        /\ spans' = Append(spans, [name |-> "step_" \o last_step', ended |-> TRUE])
        /\ \A a \in C23_Statuses(step_attrs') : a[1] # "step_" \o last_step'
        /\ step_calls' = <<>> => C23_Statuses(step_attrs') = {}
        /\ (step_calls' # <<>> /\ ~step_raised') =>
              \E a \in C23_Statuses(step_attrs') :
                 a[3] = ToString(step_calls'[Len(step_calls')].status)

\* C23: every executed step emits a span step_<name>, and every step span
\* of the journey is ended before the next step starts, also when the step
\* raised. The HTTP status is carried by the span of the step's handler
\* inside the step span, not by the step span: a step that made requests
\* and did not raise carries the status of its last response; a step that
\* made no request (exit, checkout of an empty cart) carries no status.
C23_StepSpansEnded ==
    /\ [](/\ Len(spans) = Len(executed)
          /\ \A i \in 1 .. Len(spans) :
                spans[i] = [name |-> "step_" \o executed[i], ended |-> TRUE])
    /\ [][C23_SpanStep]_vars

\* C23 witness: the third step of a journey, view_product, raised and has
\* left its span ended.
C23_Witness ==
    /\ Len(spans) = 3
    /\ step_raised
    /\ u_pc = "waiting"
    /\ spans[3] = [name |-> "step_view_product", ended |-> TRUE]
    /\ last_step = "view_product"

\* C24: every record of generate_demo_metrics, here as export_demo_csv is
\* given them, has error_percentage = errors_per_minute / calls_per_minute
\* * 100 rounded to two decimals and the health_status the classifier
\* gives for the record's own error percentage, response time and call rate.
C24_DemoRecordsDerived ==
    e_writer = "export_demo_csv" =>
        \A i \in 1 .. Len(e_data) :
           /\ e_data[i].error_percentage =
                 RoundHalfEven(e_data[i].errors_per_minute * 10000,
                               e_data[i].calls_per_minute)
           /\ e_data[i].health_status = DetermineHealthStatus(e_data[i])

\* C25: started with --hours H, H > 0, the time-range step asks nothing,
\* the overridden get_time_range does not call itself without end, and what
\* it returns to main is the range of the last H hours.
C25_HoursOverrideYieldsRange ==
    HoursGiven(args_hours) /\ args_hours > 0 =>
        /\ prompts = 0
        /\ cli_depth <= 2
        /\ cli_pc = "collect" => time_range = args_hours

\* The transition starts the fetch of application i.
C26_Starts(i) == t_state[i] = "unstarted" /\ t_state'[i] # "unstarted"

\* The last application of the batches before the one application i is in.
C26_BeforeBatch(i) == ((i - 1) \div THREAD_COUNT) * THREAD_COUNT

C26_StartStep ==
    \A i \in AppIds :
       /\ C26_Starts(i) =>
             /\ i <= Len(applications)
             /\ t_state'[i] = "running"
             /\ \A j \in 1 .. (i - 1) : t_state[j] # "unstarted"
             /\ \A j \in (i + 1) .. MaxApps : t_state[j] = "unstarted"
             /\ \A j \in 1 .. C26_BeforeBatch(i) : Terminated(j)
       /\ (t_state[i] # "running" /\ t_state'[i] = "running") => C26_Starts(i)
       /\ t_state[i] # "unstarted" => t_state'[i] # "unstarted"

\* C26: collect_metrics_threaded starts the fetches in the order of the
\* input, in consecutive batches of THREAD_COUNT: when a fetch is started
\* every earlier application's fetch has been started, no later one has,
\* and every fetch of the batches before its own has ended; no fetch is
\* started twice; and, every fetch coming to an end, the fetch of every
\* application of the list is eventually started.
C26_BatchesInOrder ==
    /\ [][C26_StartStep]_vars
    /\ (c_pc = "spawn") ~>
          (\A i \in 1 .. Len(applications) : t_state[i] # "unstarted")

\* C26 witness: the first fetch of the second batch is running, the whole
\* first batch has ended.
C26_SecondBatchStarted ==
    /\ t_state[THREAD_COUNT + 1] = "running"
    /\ \A j \in 1 .. THREAD_COUNT : Terminated(j)
    /\ Len(applications) > THREAD_COUNT

\* C27: when authenticate has returned True on a client, that client's
\* session carries the Authorization header of the cached token, whichever
\* client cached it and whether or not this call requested a token.
C27_TrueMeansHeaderSet ==
    returned.result = "True" =>
        sessions[returned.client] = "Bearer " \o token_data.access_token

C28_SessionStep ==
    LET viewed == session_data.viewed_products
        cart == session_data.cart_items
        viewed_after == session_data'.viewed_products
        cart_after == session_data'.cart_items
    IN  /\ IsPrefix(viewed, viewed_after)
        /\ Len(viewed_after) <= Len(viewed) + 1
        /\ cart_after # cart =>
              /\ StepExecuted
              /\ \/ /\ last_step' = "add_to_cart"
                    /\ Len(cart_after) = Len(cart) + 1
                    /\ IsPrefix(cart, cart_after)
                 \/ /\ last_step' = "checkout"
                    /\ cart_after = <<>>
                    /\ step_calls'[Len(step_calls')].status \in {200, 201}

\* C28: in every state of a session, over any journeys and HTTP outcomes:
\* every element of viewed_products is in 1..100, every cart_items entry
\* has a productId that is in viewed_products and a quantity in 1..3; and
\* in every step viewed_products keeps what it held and grows by at most
\* one element at its end (also from one journey to the next), and
\* cart_items changes only by an append in add_to_cart or by being emptied
\* in a checkout answered 200 or 201.
C28_SessionDataInvariant ==
    /\ [](/\ \A p \in Elements(session_data.viewed_products) : p \in 1 .. 100
          /\ \A k \in 1 .. Len(session_data.cart_items) :
                /\ session_data.cart_items[k].productId
                      \in Elements(session_data.viewed_products)
                /\ session_data.cart_items[k].quantity \in 1 .. 3)
    /\ [][C28_SessionStep]_vars

\* C28 witness: a later journey starts with the products viewed and the
\* item put into the cart in an earlier one.
C28_Witness ==
    /\ u_pc = "journey"
    /\ executed = <<>>
    /\ Len(session_data.viewed_products) = 2
    /\ Len(session_data.cart_items) = 1
    /\ session_data.cart_items[1].quantity = 3

\* What main has passed, in this order, when it returns 0.
C29_FullPath ==
    /\ configured
    /\ authenticated = "True"
    /\ applications # <<>>
    /\ metrics_list # <<>>
    /\ Len(export_calls) = 1
    /\ export_calls[1].returned = "True"

C29_OrderStep ==
    /\ authenticated' # authenticated => configured
    /\ applications' # applications => authenticated = "True"
    /\ (c_pc = "idle" /\ c_pc' # "idle") => applications # <<>>
    /\ (main_pc # "summary" /\ main_pc' = "summary") =>
          (c_pc' = "returned" /\ metrics_list # <<>>)
    /\ export_calls' # export_calls =>
          (main_pc = "export" /\ "summary" \in performed /\ metrics_list # <<>>)
    /\ main_rc' # main_rc => (main_rc = -1 /\ main_pc' = "exited")

\* C29: main returns 0 only when, in this order, the credentials are
\* configured, authenticate returned True, the application list is not
\* empty, at least one sample was collected and the export succeeded; on
\* every other path, an exception or an interrupt included, it returns 1;
\* and no export is attempted with an empty list of samples.
C29_ZeroOnlyAfterFullPath ==
    /\ [](/\ main_pc = "exited" => main_rc = (IF C29_FullPath THEN 0 ELSE 1)
          /\ main_pc # "exited" => main_rc = -1
          /\ export_calls # <<>> => metrics_list # <<>>)
    /\ [][C29_OrderStep]_vars

\* C29 witness: main has returned 0 after a CSV export of two samples.
C29_ReturnedZero ==
    /\ main_pc = "exited"
    /\ main_rc = 0
    /\ Len(metrics_list) = 2
    /\ export_calls[1].format = "csv"

\* C29 witness of the other paths: main has returned 1 on an interrupt at
\* the export prompts, the samples collected.
C29_Interrupted ==
    /\ main_pc = "exited"
    /\ main_rc = 1
    /\ metrics_list # <<>>
    /\ printed = <<"Operation cancelled by user.">>

====
